---------------------------- MODULE Spec2Model ----------------------------
(***************************************************************************)
(* AI-Bookmark: the URL analysis pipeline.                                 *)
(*                                                                         *)
(*  - the client fallback chain, analyzeUrl / callFrontendGemini /         *)
(*    createMockResponse of services/geminiService.ts;                     *)
(*  - the remote endpoint POST /api/analyze-url of the backend guide's     *)
(*    server.js (src/unnamed/part_002);                                    *)
(*  - the route POST /api/bookmarks of the multi-user backend guide's      *)
(*    server.js (kept in src/hooks/useBookmarkGrid.ts);                    *)
(*  - the form AddBookmarkForm (kept in src/components/InAppBrowser.tsx).  *)
(*                                                                         *)
(* A JavaScript string is a sequence of tokens (<<>> is the empty string,  *)
(* a template literal is a concatenation).  A JavaScript object is a       *)
(* function from its keys; a key whose value is undefined is absent.       *)
(***************************************************************************)
EXTENDS FiniteSets, Integers, Sequences, TLC

\* ------------------------------------------------------------- bounds
\* invocations of analyzeUrl that end in the mock strategy, per behaviour
MaxCalls == 2
\* the values Date.now() takes
MaxClock == 2
\* rows the bookmarks table holds
MaxRows == 1
\* bookmarks the form hands to onAddBookmark
MaxAdded == 1
\* bookmarks the guide.md backend inserts
MaxCreated == 2
\* the visibleCount the grid is let grow to
MaxVisible == 36

\* -------------------------------------------------- program constants
HTTP_OK == 200
HTTP_CREATED == 201
HTTP_BAD_REQUEST == 400
HTTP_SERVER_ERROR == 500

\* ------------------------------------------------------------ strings
EmptyStr == <<>>

Str(tok) == <<tok>>

\* JavaScript truthiness of obj[key] for a string- or array-valued key.
Has(obj, key) == key \in DOMAIN obj

Truthy(obj, key) == Has(obj, key) /\ obj[key] # EmptyStr

\* --------------------------------------------------------- the inputs
\* The url argument: an absolute URL, a bare domain, the empty string.
UrlA == <<"https://", "a.example">>
UrlB == <<"http://", "b.example">>
UrlBare == <<"example.com">>

Urls == {UrlA, UrlB, UrlBare, EmptyStr}

\* new URL(u) succeeds: u starts with a scheme.
IsAbsoluteUrl(u) == Len(u) > 0 /\ u[1] \in {"https://", "http://"}

\* What JSON.parse(response.text) can give for the model's answer: objects
\* with the schema's keys, complete or not, and the non-object null.
GoodTags == << <<"a">>, <<"b">> >>
DupTags == << <<"A">>, <<"a">>, <<"B">> >>
NineTags == << <<"t1">>, <<"t2">>, <<"t3">>, <<"t4">>, <<"t5">>,
               <<"t6">>, <<"t7">>, <<"t8">>, <<"t9">> >>
ModelImage == <<"https://", "img.example", "/m.png">>

ObjGood ==
    [title |-> Str("T"), description |-> Str("D"),
     imageUrl |-> ModelImage, tags |-> GoodTags]
ObjNoImage ==
    [title |-> Str("T"), description |-> Str("D"),
     imageUrl |-> EmptyStr, tags |-> GoodTags]
ObjDupTags ==
    [title |-> Str("T"), description |-> Str("D"),
     imageUrl |-> ModelImage, tags |-> DupTags]
ObjNineTags ==
    [title |-> Str("T"), description |-> Str("D"),
     imageUrl |-> ModelImage, tags |-> NineTags]
ObjEmptyTitle ==
    [title |-> EmptyStr, description |-> Str("D"),
     imageUrl |-> ModelImage, tags |-> GoodTags]
ObjNoTitle ==
    [description |-> Str("D"), imageUrl |-> ModelImage, tags |-> GoodTags]
ObjNoTags ==
    [title |-> Str("T"), description |-> Str("D"), imageUrl |-> ModelImage]

\* An answer carrying a key the schema does not name.
ObjIframeFalse ==
    [title |-> Str("T"), description |-> Str("D"),
     imageUrl |-> ModelImage, tags |-> GoodTags, openInIframe |-> FALSE]

ObjIframeTrue ==
    [title |-> Str("T"), description |-> Str("D"),
     imageUrl |-> ModelImage, tags |-> GoodTags, openInIframe |-> TRUE]

ModelObjects ==
    {ObjGood, ObjNoImage, ObjDupTags, ObjNineTags, ObjEmptyTitle, ObjNoTitle,
     ObjNoTags, ObjIframeFalse, ObjIframeTrue}

\* How ai.models.generateContent settles: it rejects, or resolves with a
\* text that is no JSON, the JSON null, or a JSON object.
ModelOutcomes ==
    {[kind |-> "rejected"], [kind |-> "notJson"], [kind |-> "null"]}
        \cup {[kind |-> "object", parsed |-> o] : o \in ModelObjects}


\* What axios.get(url) can give: a response (headers and parsed HTML) with
\* its status, no response at all (DNS or connection failure, timeout), or
\* an error raised before any request was made.
HtmlFull ==
    [text |-> <<"Hello", " ", "world">>,
     ogImage |-> <<"/", "og.png">>,
     twImage |-> <<"https://", "cdn.example", "/tw.png">>,
     imgs |-> << <<"data:", "AAAA">>, <<"/", "og.png">>,
                 <<"//", "cdn.example", "/p.png">>, <<"ftp://[", "x">> >>]
HtmlBare ==
    [text |-> EmptyStr, ogImage |-> EmptyStr, twImage |-> EmptyStr,
     imgs |-> <<>>]
HtmlNoMeta ==
    [text |-> <<"Hello">>, imgs |-> << <<"/", "a.png">> >>]

HdrNone == <<>>
HdrDeny == "x-frame-options" :> <<"deny">>
HdrCspSelf ==
    "content-security-policy" :> <<"default-src 'self'; ", "frame-ancestors 'self'">>

Pages ==
    {[headers |-> HdrNone, html |-> HtmlFull],
     [headers |-> HdrDeny, html |-> HtmlBare],
     [headers |-> HdrCspSelf, html |-> HtmlNoMeta],
     [headers |-> HdrCspSelf, html |-> HtmlFull]}

ErrorStatuses == {403, 404, 503}

FetchOutcomes ==
    {[kind |-> "response", status |-> 200, page |-> p] : p \in Pages}
        \cup {[kind |-> "response", status |-> st,
               page |-> [headers |-> HdrNone, html |-> HtmlBare]] :
                  st \in ErrorStatuses}
        \cup {[kind |-> "noResponse"], [kind |-> "noRequest"]}

\* Header sets the target site can answer with.  Node joins a repeated
\* header into one value: "deny, deny".
HdrSameOrigin == "x-frame-options" :> <<"SameOrigin">>
HdrDenyTwice == "x-frame-options" :> <<"deny", ", ", "deny">>
HdrCspNone == "content-security-policy" :> <<"frame-ancestors 'none'">>
HdrAllowAll ==
    "x-frame-options" :> <<"ALLOWALL">>
        @@ "content-security-policy" :> <<"default-src 'self'; ">>

HeaderSets ==
    {HdrNone, HdrDeny, HdrSameOrigin, HdrDenyTwice, HdrCspSelf, HdrCspNone,
     HdrAllowAll}

\* Texts whose length counts are written character by character: n times
\* the character c, and k one-letter words separated by single spaces.
Chars(n, c) == [i \in 1..n |-> c]

Words(k) == [i \in 1..(2 * k - 1) |-> IF i % 2 = 1 THEN "w" ELSE " "]

\* The pages POST /api/bookmarks scrapes.  A meta tag that is absent is an
\* absent key; article and main, when present, hold the texts of their <p>
\* descendants in document order; bodyPs holds those of the <p> elements
\* outside both.
ArticlePs == {<<>>, << <<" ">> >>, << <<" ">> \o Words(2) \o <<" ">> >>,
              <<Chars(349, "a"), Chars(5, "a")>>,
              <<Chars(340, "a"), Chars(200, "a")>>}

MainPs == << Chars(20, "m"), Words(3) >>

BodyPs == << Chars(30, "b") >>

BmHtmlBase == [title |-> Str("T"), h1 |-> Str("H"), bodyPs |-> <<>>]

Opt(key, vals) == {<<>>} \cup {key :> v : v \in vals}

BmTitleHtmls ==
    {og @@ [title |-> t, h1 |-> h, bodyPs |-> <<>>] :
        og \in Opt("ogTitle", {EmptyStr, Str("OG")}),
        t \in {EmptyStr, Str("T")}, h \in {EmptyStr, Str("H")}}

BmDescriptionHtmls ==
    {og @@ md @@ BmHtmlBase :
        og \in Opt("ogDescription", {Words(3), Words(12)}),
        md \in Opt("metaDescription", {Words(10)})}

BmRegionHtmls ==
    {og @@ ar @@ mn @@ [title |-> Str("T"), h1 |-> Str("H"), bodyPs |-> b] :
        og \in Opt("ogDescription", {Words(3)}),
        ar \in Opt("article", ArticlePs),
        mn \in Opt("main", {MainPs}),
        b \in {<<>>, BodyPs}}

BmImageHtmls ==
    {BmHtmlBase @@ ("ogImage" :> img) :
        img \in {EmptyStr, <<"https://", "cdn.example", "/og.png">>}}

BmPages ==
    {[headers |-> h, html |-> BmHtmlBase] : h \in HeaderSets}
        \cup {[headers |-> HdrNone, html |-> d] :
                 d \in BmTitleHtmls \cup BmDescriptionHtmls \cup BmRegionHtmls
                         \cup BmImageHtmls}

BmFetchOutcomes ==
    {[kind |-> "response", status |-> 200, page |-> p] : p \in BmPages}
        \cup {[kind |-> "response", status |-> 404,
               page |-> [headers |-> HdrNone, html |-> BmHtmlBase]],
              [kind |-> "noResponse"], [kind |-> "noRequest"]}

\* What the model answers on the bookmarks route.
BmModelOutcomes ==
    {[kind |-> "rejected"], [kind |-> "notJson"], [kind |-> "null"],
     [kind |-> "object", parsed |-> ObjGood],
     [kind |-> "object", parsed |-> ObjNoTitle],
     [kind |-> "object", parsed |-> ObjNoTags]}

\* new Date().toISOString(), earliest first, and Math.random() as the
\* handler reads them.
Instants == << <<"2025-01-01T00:00:00.000Z">>, <<"2025-01-01T00:00:00.001Z">> >>

Randoms == {<<"0.25">>, <<"0.75">>}

\* The users authenticateToken lets through.
UserIds == {1, 2}

\* The url of a request to the bookmarks route.
BmUrls == {UrlA, UrlBare, EmptyStr}

\* What the user types or pastes into the field of AddBookmarkForm.
FormTexts ==
    {<<"example.com">>, <<" ", "example.com", " ">>, <<"www.", "example.com">>,
     UrlA, UrlB, <<" ", "https://", "a.example">>,
     <<"HTTP://", "example.com">>, <<"not a url">>, <<" ">>, EmptyStr}

\* ------------------------------------------------------------- state
VARIABLES
    apiKey,     \* process.env.API_KEY is set (shouldUseMock is its negation)
    clock,      \* Date.now()
    pc,         \* where the current analyzeUrl invocation stands
    url,        \* its argument
    inflight,   \* its outbound calls that have not settled
    issued,     \* its outbound calls, in the order they were issued
    via,        \* the strategy that settled it
    result,     \* the value its promise resolved with, or the error thrown
    directModel,\* the settled generateContent call of callFrontendGemini
    mockLog,    \* the records the mock strategy returned, oldest first
    net,        \* the request to the remote endpoint, or its response
    srvPc,      \* the stage the /api/analyze-url handler is in
    srvStages,  \* the stages the handler entered for its request, in order
    srvUrl,     \* req.body.url
    srvFetch,   \* the settled axios.get call
    srvPage,    \* axiosResponse
    srvIframe,  \* openInIframe
    srvText,    \* truncatedText
    srvImages,  \* uniqueImageUrls
    srvPrompt,  \* the prompt handed to the model
    srvModel,   \* the settled generateContent call
    srvErr,     \* the error the handler's catch block caught
    srvReply,   \* the response the handler sent
    bmPc,       \* where the POST /api/bookmarks handler stands
    bmUrl,      \* req.body.url
    bmUser,     \* req.user.id, set by authenticateToken
    bmPage,     \* axiosResponse
    bmTitle,    \* extractedTitle
    bmDescription, \* extractedDescription
    bmImageUrl, \* imageUrl
    bmIframe,   \* openInIframe
    bmPrompt,   \* the prompt handed to the model
    bmAnalysis, \* analysis, the parsed answer of the model
    bmBookmark, \* newBookmark
    bmDb,       \* the rows of table bookmarks, oldest first
    bmReply,    \* the response the handler sent
    formUrl,    \* AddBookmarkForm: the url state, the text of the field
    isLoading,  \* AddBookmarkForm: the isLoading state
    formError,  \* AddBookmarkForm: the error state
    submittedUrl, \* handleSubmit: the url it was called with
    validUrl,   \* handleSubmit: validUrl
    formAnalysis, \* handleSubmit: analysis
    added, \* the bookmarks handed to onAddBookmark, oldest first
    runs, \* the concurrent analyzeUrl invocations, each with the handler that serves it
    dbUsers,  \* guide.md backend: the rows of table users, in insertion order
    dbBookmarks,  \* guide.md backend: the rows of table bookmarks, in insertion order
    tokens,  \* the access tokens /api/auth/login has handed out
    created,  \* the number of bookmarks inserted so far (the server clock)
    lastReq,  \* the request the backend handled last
    lastRes, \* the response to it
    gridBookmarks,  \* useBookmarkGrid: the bookmarks argument
    viewMode,  \* useBookmarkGrid: the viewMode argument
    searchTerm,  \* useBookmarkGrid: the searchTerm state
    debouncedSearchTerm,  \* useDebounce(searchTerm, 300)
    searchFilters,  \* useBookmarkGrid: the searchFilters state
    visibleCount,  \* useBookmarkGrid: the visibleCount state
    memoDeps,  \* the dependencies the filteredBookmarks memo was computed for
    rendered, \* what the last render returned and its callbacks closed over
    bookmarks,  \* LocalApp / BackendApp: the bookmarks state
    editingBookmark,  \* the editingBookmark state
    deletingBookmark,  \* the deletingBookmark state
    addCalls, \* the addBookmark calls: not made, awaiting the analysis, returned or thrown
    authToken,  \* BackendApp: the token of the session, None when logged out
    appState,  \* BackendApp: "loading", "ready" or "error"
    appError,  \* BackendApp: the message of a failed load
    requests, \* BackendApp: the api requests in flight
    browsingUrl,  \* the url shown by the in-app browser, None when it is closed
    newTab,  \* the url last given to window.open, None before the first
    openCall   \* the last call of handleOpenBookmark: its app, its bookmark, the device

chainVars ==
    <<apiKey, clock, pc, url, inflight, issued, via, result, directModel,
      mockLog>>

srvVars ==
    <<srvPc, srvStages, srvUrl, srvFetch, srvPage, srvIframe, srvText, srvImages,
      srvPrompt, srvModel, srvErr, srvReply>>

vars == <<chainVars, net, srvVars>>

bmLocals ==
    <<bmUrl, bmUser, bmPage, bmTitle, bmDescription, bmImageUrl, bmIframe, bmPrompt,
      bmAnalysis, bmBookmark>>

bmVars == <<bmPc, bmLocals, bmDb, bmReply>>

formVars ==
    <<formUrl, isLoading, formError, submittedUrl, validUrl, formAnalysis, added>>

concVars == <<runs>>

backendVars == <<dbUsers, dbBookmarks, tokens, created, lastReq, lastRes>>

gridVars == <<gridBookmarks, viewMode, searchTerm, debouncedSearchTerm, searchFilters, visibleCount, memoDeps, rendered>>

appVars == <<bookmarks, editingBookmark, deletingBookmark, addCalls>>

sessionVars == <<authToken, appState, appError, requests>>

openVars == <<browsingUrl, newTab, openCall>>

allVars == <<vars, bmVars, formVars, concVars, backendVars, gridVars, appVars, sessionVars, openVars>>

\* What each component leaves alone: the state of the other components.
outsidePipeline == <<bmVars, formVars, concVars, backendVars, gridVars, appVars, sessionVars, openVars>>
outsideBm == <<vars, formVars, concVars, backendVars, gridVars, appVars, sessionVars, openVars>>
outsideForm == <<vars, bmVars, concVars, backendVars, gridVars, appVars, sessionVars, openVars>>
outsideConc == <<vars, bmVars, formVars, backendVars, gridVars, appVars, sessionVars, openVars>>
outsideBackend == <<vars, bmVars, formVars, concVars, gridVars, appVars, sessionVars, openVars>>
outsideGrid == <<vars, bmVars, formVars, concVars, backendVars, appVars, sessionVars, openVars>>
outsideApp == <<vars, bmVars, formVars, concVars, backendVars, gridVars, sessionVars, openVars>>
outsideSession == <<vars, bmVars, formVars, concVars, backendVars, gridVars, appVars, openVars>>

None == [none |-> TRUE]

NetIdle == [st |-> "idle"]

\* ------------------------------------- services/geminiService.ts
\* createMockResponse(url), evaluated when Date.now() = now.
createMockResponse(u, now) ==
    [url |-> u,
     title |-> <<"Mock Title for ">> \o u,
     description |-> Str("This is a mock description generated because the Gemini API key is not available."),
     imageUrl |-> <<"https://picsum.photos/seed/", ToString(now), "/600/400">>,
     tags |-> << <<"mock">>, <<"sample-data">>, <<"placeholder">> >>,
     openInIframe |-> TRUE]

\* The keys callFrontendGemini and the server copy from the parsed answer.
ModelKeys == {"title", "description", "imageUrl", "tags"}

\* The object callFrontendGemini returns for a parsed answer: a key whose
\* value is undefined is absent.
FrontendResultSpread(u, parsed) ==
    [k \in {"url", "openInIframe"} \cup (ModelKeys \cap DOMAIN parsed) |->
        CASE k = "url" -> u
          [] k = "openInIframe" ->
                IF Has(parsed, "openInIframe") THEN parsed[k] ELSE TRUE
          [] OTHER -> parsed[k]]

FrontendResult(u, parsed) ==
    [k \in {"url", "openInIframe"} \cup (ModelKeys \cap DOMAIN parsed) |->
        CASE k = "url" -> u
          [] k = "openInIframe" -> TRUE
          [] OTHER -> parsed[k]]

\* The Error callFrontendGemini throws from its outer catch.
FrontendError(o) ==
    [error |-> <<"Frontend analysis failed: ">> \o
        (CASE o.kind = "rejected" -> Str("model call failed")
           [] o.kind = "notJson" -> Str("Received invalid JSON from AI model.")
           [] OTHER -> Str("Cannot read properties of null"))]

\* const shouldUseMock = !process.env.API_KEY.
shouldUseMockNever == FALSE

shouldUseMock == ~apiKey

\* An outbound call as the invocation issued it.
Outbound(call, u) == [call |-> call, url |-> u]

\* An invocation settles: its promise resolves with r, or rejects with r.
Settle(how, r) ==
    /\ via' = how
    /\ result' = r
    /\ pc' = IF how = "threw" THEN "threw" ELSE "returned"
    /\ mockLog' = IF how = "mock" THEN Append(mockLog, r) ELSE mockLog

\* analyzeUrl(u) up to its first await: the mock timer when no key is set,
\* the POST to the backend otherwise.
Call(u) ==
    /\ pc \in {"idle", "returned", "threw"}
    /\ apiKey \/ Len(mockLog) < MaxCalls
    /\ url' = u
    /\ via' = "none"
    /\ result' = None
    /\ directModel' = None
    /\ IF shouldUseMock
         THEN /\ pc' = "mockDelay"
              /\ inflight' = {}
              /\ issued' = <<>>
              /\ net' = net
         ELSE /\ pc' = "remote"
              /\ inflight' = {"remote"}
              /\ issued' = <<Outbound("remote", u)>>
              /\ net' = [st |-> "request", url |-> u]
    /\ UNCHANGED <<apiKey, clock, mockLog, srvVars>>

\* The MOCK_DELAY timer fires: resolve(createMockResponse(url)).
MockTimer ==
    /\ pc = "mockDelay"
    /\ Settle("mock", createMockResponse(url, clock))
    /\ UNCHANGED <<apiKey, clock, url, inflight, issued, directModel, net,
                   srvVars>>

\* The catch of analyzeUrl: return callFrontendGemini(url), up to its await
\* of ai.models.generateContent.
FallBackToFrontendBoth ==
    /\ pc' = "direct"
    /\ inflight' = inflight \cup {"direct"}
    /\ issued' = Append(issued, Outbound("direct", url))
    /\ UNCHANGED <<via, result, mockLog>>

FallBackToFrontend ==
    /\ pc' = "direct"
    /\ inflight' = {"direct"}
    /\ issued' = Append(issued, Outbound("direct", url))
    /\ UNCHANGED <<via, result, mockLog>>

\* The remote response is a success: parseable JSON with an ok status.
RemoteOkAlways(resp) == resp.json

RemoteOk(resp) == resp.json /\ resp.status \in 200..299

\* fetch resolved: response.json(), the response.ok test, return data.
RemoteSettle ==
    /\ pc = "remote"
    /\ net.st = "response"
    /\ IF RemoteOk(net)
         THEN /\ Settle("remote", net.data)
              /\ inflight' = {}
              /\ issued' = issued
         ELSE FallBackToFrontend
    /\ net' = NetIdle
    /\ UNCHANGED <<apiKey, clock, url, directModel, srvVars>>

\* fetch rejected: the backend is not running, the connection was lost or
\* timed out before the request or the response got through.
RemoteReject ==
    /\ pc = "remote"
    /\ net.st \in {"request", "response"}
    /\ FallBackToFrontend
    /\ net' = NetIdle
    /\ UNCHANGED <<apiKey, clock, url, directModel, srvVars>>

\* Something other than the backend answers on the port: a body that is
\* no JSON, with a success or an error status.
ForeignResponse(status) ==
    /\ net.st = "request"
    /\ net' = [st |-> "response", status |-> status, json |-> FALSE]
    /\ UNCHANGED <<chainVars, srvVars>>

\* generateContent settled inside callFrontendGemini.
DirectSettle(o) ==
    /\ pc = "direct"
    /\ inflight' = {}
    /\ directModel' = o
    /\ IF o.kind = "object"
         THEN Settle("direct", FrontendResult(url, o.parsed))
         ELSE Settle("threw", FrontendError(o))
    /\ UNCHANGED <<apiKey, clock, url, issued, net, srvVars>>

\* Time passes.
Tick ==
    /\ clock < MaxClock
    /\ clock' = clock + 1
    /\ UNCHANGED <<apiKey, pc, url, inflight, issued, via, result, directModel,
                   mockLog, net, srvVars>>


\* --------------------------------- server.js, POST /api/analyze-url
MAX_TEXT_LENGTH == 8000
MAX_IMAGES == 20

Min(a, b) == IF a < b THEN a ELSE b

StartsWith(s, toks) == Len(s) > 0 /\ s[1] \in toks

\* String.prototype.toUpperCase on the header values the inputs use.
UpperTok(tok) ==
    CASE tok = "deny" -> "DENY"
      [] tok = "SameOrigin" -> "SAMEORIGIN"
      [] OTHER -> tok

ToUpperCase(s) == [i \in DOMAIN s |-> UpperTok(s[i])]

\* String.prototype.includes for a needle that is one token.
Includes(s, tok) == \E i \in DOMAIN s : s[i] = tok

\* encodeURIComponent.
EncodeTok(tok) ==
    CASE tok = "https://" -> "https%3A%2F%2F"
      [] tok = "http://" -> "http%3A%2F%2F"
      [] tok = "/" -> "%2F"
      [] OTHER -> tok

encodeURIComponent(s) == [i \in DOMAIN s |-> EncodeTok(s[i])]

\* new URL(relativeUrl, baseUrl).href for a path, and whether it throws.
UrlThrows(rel) == StartsWith(rel, {"ftp://["})

UrlHref(rel, base) == SubSeq(base, 1, 2) \o rel

\* toAbsoluteUrl(baseUrl, relativeUrl) for a string relativeUrl; <<>> stands
\* for both results that are falsy, "" and null.
toAbsoluteUrl(base, rel) ==
    IF rel = EmptyStr \/ StartsWith(rel, {"https://", "http://"})
                      \/ StartsWith(rel, {"//"})
      THEN IF StartsWith(rel, {"//"}) THEN <<"https:">> \o rel ELSE rel
      ELSE IF UrlThrows(rel) THEN EmptyStr ELSE UrlHref(rel, base)

\* imageUrls.add(absolute) when absolute is truthy: a Set keeps insertion
\* order and drops repeats.
addUrl(imageUrls, base, u) ==
    LET absolute == toAbsoluteUrl(base, u)
    IN  IF absolute = EmptyStr \/ (\E i \in DOMAIN imageUrls : imageUrls[i] = absolute)
          THEN imageUrls
          ELSE Append(imageUrls, absolute)

\* $('img').each(...): every src that is set and no data: URI.
RECURSIVE addImgs(_, _, _)
addImgs(imageUrls, base, imgs) ==
    IF imgs = <<>> THEN imageUrls
    ELSE LET src == Head(imgs)
         IN  addImgs(IF src # EmptyStr /\ ~StartsWith(src, {"data:"})
                       THEN addUrl(imageUrls, base, src)
                       ELSE imageUrls,
                     base, Tail(imgs))

\* Step 4 throws a TypeError when a meta tag is absent: toAbsoluteUrl calls
\* startsWith on the undefined attribute.
ExtractImagesThrows(html) == ~Has(html, "ogImage") \/ ~Has(html, "twImage")

uniqueImageUrls(base, html) ==
    LET all == addImgs(addUrl(addUrl(<<>>, base, html.ogImage), base, html.twImage),
                       base, html.imgs)
    IN  SubSeq(all, 1, Min(MAX_IMAGES, Len(all)))

\* Step 2: the header check.
HeaderOr(headers, name) == IF Has(headers, name) THEN headers[name] ELSE EmptyStr

openInIframeOf(headers) ==
    LET xFrameOptions == ToUpperCase(HeaderOr(headers, "x-frame-options"))
        csp == HeaderOr(headers, "content-security-policy")
    IN  /\ ~(xFrameOptions = <<"DENY">> \/ xFrameOptions = <<"SAMEORIGIN">>)
        /\ ~(Includes(csp, "frame-ancestors 'none'")
               \/ Includes(csp, "frame-ancestors 'self'"))

\* Step 8: the object handed to res.json; JSON drops the undefined values.
PicsumFor(u) == <<"https://picsum.photos/seed/">> \o encodeURIComponent(u) \o <<"/600/400">>

ServerResultModelDecides(u, parsed, images, iframe) ==
    [k \in {"url", "imageUrl", "openInIframe"} \cup (ModelKeys \cap DOMAIN parsed) |->
        CASE k = "url" -> u
          [] k = "openInIframe" ->
                IF Has(parsed, "openInIframe") THEN parsed.openInIframe ELSE iframe
          [] k = "imageUrl" ->
                IF Truthy(parsed, "imageUrl") THEN parsed.imageUrl
                ELSE IF Len(images) > 0 THEN images[1] ELSE PicsumFor(u)
          [] OTHER -> parsed[k]]

ServerResultCandidateFirst(u, parsed, images, iframe) ==
    [k \in {"url", "imageUrl", "openInIframe"} \cup (ModelKeys \cap DOMAIN parsed) |->
        CASE k = "url" -> u
          [] k = "openInIframe" -> iframe
          [] k = "imageUrl" ->
                IF Len(images) > 0 THEN images[1]
                ELSE IF Truthy(parsed, "imageUrl") THEN parsed.imageUrl
                ELSE PicsumFor(u)
          [] OTHER -> parsed[k]]

ServerResult(u, parsed, images, iframe) ==
    [k \in {"url", "imageUrl", "openInIframe"} \cup (ModelKeys \cap DOMAIN parsed) |->
        CASE k = "url" -> u
          [] k = "openInIframe" -> iframe
          [] k = "imageUrl" ->
                IF Truthy(parsed, "imageUrl") THEN parsed.imageUrl
                ELSE IF Len(images) > 0 THEN images[1] ELSE PicsumFor(u)
          [] OTHER -> parsed[k]]


\* The errors the handler's catch block sees.
AxiosStatusError(st) ==
    [hasResponse |-> TRUE, hasRequest |-> TRUE, status |-> st,
     message |-> <<"Request failed with status code ", ToString(st)>>]

AxiosNoResponse ==
    [hasResponse |-> FALSE, hasRequest |-> TRUE,
     message |-> Str("timeout of 10000ms exceeded")]

PlainError(msg) == [hasResponse |-> FALSE, hasRequest |-> FALSE, message |-> msg]

InvalidJsonError == PlainError(<<"Received invalid JSON from AI model", ".">>)

TypeError == PlainError(Str("Cannot read properties of undefined"))

\* The catch block: the status and the { error } body chosen for an error.
CatchReplyRequestFirst(err) ==
    IF err.hasRequest
      THEN [status |-> HTTP_BAD_REQUEST,
            data |-> [error |-> Str("This URL could not be reached. Please check if the domain is correct and the site is online.")]]
    ELSE IF err.hasResponse
      THEN [status |-> HTTP_BAD_REQUEST,
            data |-> [error |-> <<"Could not access this URL. The server responded with status: ",
                                  ToString(err.status),
                                  ". The page may be private or no longer exist.">>]]
    ELSE IF Includes(err.message, "Received invalid JSON from AI model")
      THEN [status |-> HTTP_SERVER_ERROR,
            data |-> [error |-> Str("The AI model returned an unexpected response. Please try again.")]]
    ELSE [status |-> HTTP_SERVER_ERROR,
          data |-> [error |-> Str("An unknown error occurred while analyzing the URL.")]]

CatchReply(err) ==
    IF err.hasResponse
      THEN [status |-> HTTP_BAD_REQUEST,
            data |-> [error |-> <<"Could not access this URL. The server responded with status: ",
                                  ToString(err.status),
                                  ". The page may be private or no longer exist.">>]]
    ELSE IF err.hasRequest
      THEN [status |-> HTTP_BAD_REQUEST,
            data |-> [error |-> Str("This URL could not be reached. Please check if the domain is correct and the site is online.")]]
    ELSE IF Includes(err.message, "Received invalid JSON from AI model")
      THEN [status |-> HTTP_SERVER_ERROR,
            data |-> [error |-> Str("The AI model returned an unexpected response. Please try again.")]]
    ELSE [status |-> HTTP_SERVER_ERROR,
          data |-> [error |-> Str("An unknown error occurred while analyzing the URL.")]]

\* The handler moves on to its next stage.
Enter(stage) ==
    /\ srvPc' = stage
    /\ srvStages' = Append(srvStages, stage)
    /\ UNCHANGED <<net, srvReply>>

\* res.status(status).json(data): the handler is over.
Respond(reply, endPc) ==
    /\ srvReply' = reply
    /\ net' = [st |-> "response", status |-> reply.status, json |-> TRUE,
               data |-> reply.data]
    /\ srvPc' = endPc
    /\ srvStages' = IF endPc = "Done" THEN Append(srvStages, "Done") ELSE srvStages

\* An exception reaches the catch block.
Catch(err) ==
    /\ srvErr' = err
    /\ Respond(CatchReply(err), "Failed")

\* The request arrives: a new handler invocation with its own locals.
SrvReceive ==
    /\ net.st = "request"
    /\ srvPc \in {"Idle", "Done", "Failed"}
    /\ srvUrl' = net.url
    /\ srvPc' = "ValidatingURL"
    /\ srvStages' = <<"ValidatingURL">>
    /\ net' = [st |-> "processing"]
    /\ srvFetch' = None /\ srvPage' = None /\ srvIframe' = None /\ srvText' = None
    /\ srvImages' = None /\ srvPrompt' = None /\ srvModel' = None
    /\ srvErr' = None /\ srvReply' = None
    /\ UNCHANGED chainVars

\* The handler without the format check of lines 125-129.
SrvValidateUrlSkipsFormat ==
    /\ srvPc = "ValidatingURL"
    /\ IF srvUrl = EmptyStr
         THEN /\ Respond([status |-> HTTP_BAD_REQUEST,
                          data |-> [error |-> Str("URL is required")]], "Failed")
         ELSE Enter("Fetching")
    /\ UNCHANGED <<chainVars, srvUrl, srvFetch, srvPage, srvIframe, srvText,
                   srvImages, srvPrompt, srvModel, srvErr>>

\* Lines 118-141: the url checks, then axios.get is issued.
SrvValidateUrl ==
    /\ srvPc = "ValidatingURL"
    /\ IF srvUrl = EmptyStr
         THEN /\ Respond([status |-> HTTP_BAD_REQUEST,
                          data |-> [error |-> Str("URL is required")]], "Failed")
         ELSE IF ~IsAbsoluteUrl(srvUrl)
           THEN /\ Respond([status |-> HTTP_BAD_REQUEST,
                            data |-> [error |-> Str("The provided URL format is invalid.")]],
                           "Failed")
           ELSE Enter("Fetching")
    /\ UNCHANGED <<chainVars, srvUrl, srvFetch, srvPage, srvIframe, srvText,
                   srvImages, srvPrompt, srvModel, srvErr>>

\* axios resolves for a 2xx status (its default validateStatus) and rejects
\* for every other outcome.
AxiosResolvesAnyStatus(o) == o.kind = "response"

AxiosResolves(o) == o.kind = "response" /\ o.status \in 200..299

AxiosErrorOf(o) ==
    CASE o.kind = "response" -> AxiosStatusError(o.status)
      [] o.kind = "noResponse" -> AxiosNoResponse
      [] OTHER -> PlainError(Str("Unsupported protocol"))

\* axios.get settled.
SrvFetch(o) ==
    /\ srvPc = "Fetching"
    /\ srvFetch' = o
    /\ IF AxiosResolves(o)
         THEN /\ srvPage' = o.page
              /\ Enter("Classifying")
              /\ srvErr' = srvErr
         ELSE /\ Catch(AxiosErrorOf(o))
              /\ srvPage' = srvPage
    /\ UNCHANGED <<chainVars, srvUrl, srvIframe, srvText, srvImages, srvPrompt,
                   srvModel>>

\* Step 2, lines 145-156.
SrvClassify ==
    /\ srvPc = "Classifying"
    /\ srvIframe' = openInIframeOf(srvPage.headers)
    /\ Enter("Extracting")
    /\ UNCHANGED <<chainVars, srvUrl, srvFetch, srvPage, srvText, srvImages,
                   srvPrompt, srvModel, srvErr>>

\* Steps 3 and 4, lines 158-183.
SrvExtract ==
    /\ srvPc = "Extracting"
    /\ IF ExtractImagesThrows(srvPage.html)
         THEN /\ Catch(TypeError)
              /\ UNCHANGED <<srvText, srvImages>>
         ELSE /\ srvText' = SubSeq(srvPage.html.text, 1,
                                   Min(MAX_TEXT_LENGTH, Len(srvPage.html.text)))
              /\ srvImages' = uniqueImageUrls(srvUrl, srvPage.html)
              /\ Enter("Prompting")
              /\ srvErr' = srvErr
    /\ UNCHANGED <<chainVars, srvUrl, srvFetch, srvPage, srvIframe, srvPrompt,
                   srvModel>>

\* Steps 5 to 7, lines 185-221: the prompt, then generateContent is issued.
SrvPrompt ==
    /\ srvPc = "Prompting"
    /\ srvPrompt' =
          [url |-> srvUrl,
           text |-> IF srvText # EmptyStr THEN srvText
                    ELSE Str("No text content could be extracted."),
           images |-> IF Len(srvImages) > 0 THEN srvImages
                      ELSE <<Str("No images found.")>>]
    /\ Enter("InvokingModel")
    /\ UNCHANGED <<chainVars, srvUrl, srvFetch, srvPage, srvIframe, srvText,
                   srvImages, srvModel, srvErr>>

\* generateContent settled.
SrvModel(o) ==
    /\ srvPc = "InvokingModel"
    /\ IF o.kind = "rejected"
         THEN /\ Catch(PlainError(Str("model call failed")))
              /\ srvModel' = srvModel
         ELSE /\ srvModel' = o
              /\ Enter("ValidatingResponse")
              /\ srvErr' = srvErr
    /\ UNCHANGED <<chainVars, srvUrl, srvFetch, srvPage, srvIframe, srvText,
                   srvImages, srvPrompt>>

\* Step 8, lines 223-241: JSON.parse, the result object, res.json(result).
SrvRespond ==
    /\ srvPc = "ValidatingResponse"
    /\ CASE srvModel.kind = "notJson" -> Catch(InvalidJsonError)
         [] srvModel.kind = "null" -> Catch(TypeError)
         [] OTHER ->
              /\ Respond([status |-> HTTP_OK,
                          data |-> ServerResult(srvUrl, srvModel.parsed,
                                                srvImages, srvIframe)], "Done")
              /\ srvErr' = srvErr
    /\ UNCHANGED <<chainVars, srvUrl, srvFetch, srvPage, srvIframe, srvText,
                   srvImages, srvPrompt, srvModel>>

\* --------------------------------- server.js, POST /api/bookmarks
SCRAPE_LENGTH == 350
MIN_WORDS == 10
PROMPT_DESCRIPTION_LENGTH == 500

\* obj[key] || fallback, for a string-valued key.
AttrOr(obj, key, fallback) == IF Truthy(obj, key) THEN obj[key] ELSE fallback

\* String.prototype.trim.
RECURSIVE TrimStart(_)
TrimStart(s) == IF s # <<>> /\ Head(s) = " " THEN TrimStart(Tail(s)) ELSE s

RECURSIVE TrimEnd(_)
TrimEnd(s) ==
    IF s # <<>> /\ s[Len(s)] = " " THEN TrimEnd(SubSeq(s, 1, Len(s) - 1)) ELSE s

Trim(s) == TrimEnd(TrimStart(s))

\* s.split(/\s+/).length: one more than the runs of white space in s.
SplitLength(s) ==
    Cardinality({i \in DOMAIN s : s[i] = " " /\ (i = 1 \/ s[i - 1] # " ")}) + 1

\* s.substring(0, n).
Substring(s, n) == SubSeq(s, 1, Min(n, Len(s)))

\* Line 367: og:title || <title> || the first <h1>.
extractedTitleOf(html) ==
    AttrOr(html, "ogTitle", IF html.title # EmptyStr THEN html.title ELSE html.h1)

\* Line 377: the first <article>, else the first <main>, else nothing.
mainContentPs(html) ==
    IF Has(html, "article") THEN html.article
    ELSE IF Has(html, "main") THEN html.main ELSE <<>>

\* Lines 378-382: mainContentEl.find('p').each(...).
RECURSIVE gatherPs(_, _)
gatherPs(contentText, ps) ==
    IF ps = <<>> THEN contentText
    ELSE gatherPs(IF Len(contentText) < SCRAPE_LENGTH
                    THEN contentText \o Trim(Head(ps)) \o <<" ">>
                    ELSE contentText,
                  Tail(ps))

\* Lines 370-387: extractedDescription.
extractedDescriptionOf(html) ==
    LET meta == AttrOr(html, "ogDescription",
                       AttrOr(html, "metaDescription", EmptyStr))
        wordCount == SplitLength(Trim(meta))
        contentText == gatherPs(EmptyStr, mainContentPs(html))
    IN  IF wordCount < MIN_WORDS /\ Trim(contentText) # EmptyStr
          THEN Trim(contentText)
          ELSE meta

\* Line 389.
bmImageUrlOf(u, html) == AttrOr(html, "ogImage", PicsumFor(u))

\* Lines 392-399: the header check of the bookmarks route.
bmOpenInIframeOf(headers) ==
    /\ ~(/\ Has(headers, "x-frame-options")
         /\ \/ Includes(ToUpperCase(headers["x-frame-options"]), "DENY")
            \/ Includes(ToUpperCase(headers["x-frame-options"]), "SAMEORIGIN"))
    /\ ~(/\ Has(headers, "content-security-policy")
         /\ \/ Includes(headers["content-security-policy"], "frame-ancestors 'none'")
            \/ Includes(headers["content-security-policy"], "frame-ancestors 'self'"))

\* JSON.stringify of an array of strings.
RECURSIVE JsonItems(_)
JsonItems(arr) ==
    IF arr = <<>> THEN <<>>
    ELSE <<"\"">> \o Head(arr) \o <<"\"">>
            \o (IF Len(arr) > 1 THEN <<",">> ELSE <<>>) \o JsonItems(Tail(arr))

JsonStringify(arr) == <<"[">> \o JsonItems(arr) \o <<"]">>

\* Lines 432-445: newBookmark; an undefined value is an absent key.
newBookmarkOf(user, u, analysis, imageUrl, iframe, idAt, random, createdAt) ==
    [k \in {"id", "userId", "url", "imageUrl", "notes", "createdAt", "openInIframe"}
            \cup ({"title", "description", "tags"} \cap DOMAIN analysis) |->
        CASE k = "id" -> idAt \o random
          [] k = "userId" -> user
          [] k = "url" -> u
          [] k = "imageUrl" -> imageUrl
          [] k = "notes" -> EmptyStr
          [] k = "createdAt" -> createdAt
          [] k = "openInIframe" -> iframe
          [] k = "tags" -> JsonStringify(analysis.tags)
          [] OTHER -> analysis[k]]

\* Line 450: {...newBookmark, tags: analysis.tags}.
CreatedBody(bookmark, analysis) ==
    [k \in DOMAIN bookmark |-> IF k = "tags" THEN analysis.tags ELSE bookmark[k]]

\* The INSERT violates no constraint of the table: title is NOT NULL and id
\* is the primary key.
InsertAllowed(db, row) ==
    /\ Has(row, "title")
    /\ \A i \in DOMAIN db : db[i].id # row.id

BmReply(reply, endPc) ==
    /\ bmReply' = reply
    /\ bmPc' = endPc

\* Lines 454-457: the catch block.
BmCatch ==
    BmReply([status |-> HTTP_SERVER_ERROR,
             data |-> [error |-> Str("Failed to analyze URL. The site may be unreachable or block automated access.")]],
            "Failed")

\* Lines 353-359: the request arrives; axios.get is issued.
BmReceive(u, user) ==
    /\ bmPc \in {"Idle", "Done", "Failed"}
    /\ Len(bmDb) < MaxRows
    /\ bmUrl' = u
    /\ bmUser' = user
    /\ bmPage' = None /\ bmTitle' = None /\ bmDescription' = None
    /\ bmImageUrl' = None /\ bmIframe' = None /\ bmPrompt' = None
    /\ bmAnalysis' = None /\ bmBookmark' = None
    /\ IF u = EmptyStr
         THEN BmReply([status |-> HTTP_BAD_REQUEST,
                       data |-> [error |-> Str("URL is required")]], "Failed")
         ELSE BmReply(None, "Fetching")
    /\ UNCHANGED <<bmDb, outsideBm>>

\* Lines 360-429: axios.get settled; the page is scraped, the headers are
\* checked, the prompt is built and generateContent is issued.
BmFetched(o) ==
    /\ bmPc = "Fetching"
    /\ IsAbsoluteUrl(bmUrl) \/ o.kind = "noRequest"
    /\ IF AxiosResolves(o)
         THEN /\ bmPage' = o.page
              /\ bmTitle' = extractedTitleOf(o.page.html)
              /\ bmDescription' = extractedDescriptionOf(o.page.html)
              /\ bmImageUrl' = bmImageUrlOf(bmUrl, o.page.html)
              /\ bmIframe' = bmOpenInIframeOf(o.page.headers)
              /\ bmPrompt' =
                    [url |-> bmUrl,
                     title |-> bmTitle',
                     description |->
                        Substring(bmDescription', PROMPT_DESCRIPTION_LENGTH)]
              /\ bmPc' = "InvokingModel"
              /\ bmReply' = bmReply
         ELSE /\ BmCatch
              /\ UNCHANGED <<bmPage, bmTitle, bmDescription, bmImageUrl, bmIframe,
                             bmPrompt>>
    /\ UNCHANGED <<bmUrl, bmUser, bmAnalysis, bmBookmark, bmDb, outsideBm>>

\* Lines 425-448: generateContent settled; JSON.parse, newBookmark, and the
\* INSERT is issued.
BmModel(o, i, random, j) ==
    /\ bmPc = "InvokingModel"
    /\ i <= j
    /\ IF o.kind = "object"
         THEN /\ bmAnalysis' = o.parsed
              /\ bmBookmark' =
                    newBookmarkOf(bmUser, bmUrl, o.parsed, bmImageUrl, bmIframe,
                                  Instants[i], random, Instants[j])
              /\ bmPc' = "Saving"
              /\ bmReply' = bmReply
         ELSE /\ BmCatch
              /\ UNCHANGED <<bmAnalysis, bmBookmark>>
    /\ UNCHANGED <<bmUrl, bmUser, bmPage, bmTitle, bmDescription, bmImageUrl,
                   bmIframe, bmPrompt, bmDb, outsideBm>>

\* Lines 448-451: the callback of stmt.run.
BmSaved(err) ==
    /\ bmPc = "Saving"
    /\ err \/ InsertAllowed(bmDb, bmBookmark)
    /\ IF err
         THEN /\ BmReply([status |-> HTTP_SERVER_ERROR,
                          data |-> [error |-> Str("Failed to save bookmark")]],
                         "Failed")
              /\ bmDb' = bmDb
         ELSE /\ BmReply([status |-> HTTP_CREATED,
                          data |-> CreatedBody(bmBookmark, bmAnalysis)], "Done")
              /\ bmDb' = Append(bmDb, bmBookmark)
    /\ UNCHANGED <<bmLocals, outsideBm>>


\* ----------------------- components/AddBookmarkForm (InAppBrowser.tsx)
\* urlPattern.test(s): an optional scheme, an optional www., a dotted name,
\* then path characters.
UrlPatternTest(s) ==
    LET a == IF StartsWith(s, {"https://", "http://"}) THEN 2 ELSE 1
        b == IF Len(s) >= a /\ s[a] = "www." THEN a + 1 ELSE a
    IN  /\ Len(s) >= b
        /\ s[b] \in {"example.com", "a.example", "b.example"}
        /\ \A i \in (b + 1)..Len(s) : s[i] \in {"/", "path"}

\* Lines 190-193: the scheme is added when there is none.
validUrlOfHttpsOnly(trimmedUrl) ==
    IF ~StartsWith(trimmedUrl, {"https://"})
      THEN <<"https://">> \o trimmedUrl
      ELSE trimmedUrl

validUrlOf(trimmedUrl) ==
    IF ~StartsWith(trimmedUrl, {"http://"}) /\ ~StartsWith(trimmedUrl, {"https://"})
      THEN <<"https://">> \o trimmedUrl
      ELSE trimmedUrl

\* Lines 163-169: the clipboard text the field takes on focus.
ClipboardAccepted(text) ==
    \/ StartsWith(text, {"https://", "http://"})
    \/ /\ \E i \in DOMAIN text : text[i] \in {"example.com", "a.example", "b.example", "www."}
       /\ \A i \in DOMAIN text : text[i] \notin {" ", "not a url"}

\* How analyzeUrl(u) settles for the form: with the record of one of its
\* strategies (a backend may echo another url than the one it was sent),
\* or by throwing.
AnalysisOutcomes(u) ==
    {[kind |-> "resolved", value |-> r] :
        r \in {createMockResponse(u, 0),
               FrontendResult(u, ObjGood),
               ServerResult(UrlB \o <<"/", "landing">>, ObjGood, <<>>, FALSE)}}
        \cup {[kind |-> "rejected", value |-> FrontendError([kind |-> "rejected"])]}

\* Lines 198-203: newBookmark.
formBookmarkOf(record, u, idAt, random, createdAt) ==
    [k \in DOMAIN record \cup {"url", "id", "createdAt"} |->
        CASE k = "url" -> u
          [] k = "id" -> idAt \o random
          [] k = "createdAt" -> createdAt
          [] OTHER -> record[k]]

\* onChange of the field.
FormChange(text) ==
    /\ ~isLoading
    /\ formUrl' = text
    /\ formError' = None
    /\ UNCHANGED <<isLoading, submittedUrl, validUrl, formAnalysis, added, outsideForm>>

\* handleFocus: an empty field takes the clipboard text that looks like a URL.
FormFocus(text) ==
    /\ ~isLoading
    /\ Trim(formUrl) = EmptyStr
    /\ ClipboardAccepted(text)
    /\ formUrl' = text
    /\ UNCHANGED <<isLoading, formError, submittedUrl, validUrl, formAnalysis, added,
                   outsideForm>>

\* handleSubmit up to its await of analyzeUrl(validUrl).
FormSubmit ==
    /\ ~isLoading
    /\ Len(added) < MaxAdded
    /\ Trim(formUrl) # EmptyStr
    /\ IF ~UrlPatternTest(Trim(formUrl))
         THEN /\ formError' = Str("Please enter a valid URL (e.g., google.com).")
              /\ UNCHANGED <<isLoading, submittedUrl, validUrl, formAnalysis>>
         ELSE /\ submittedUrl' = formUrl
              /\ validUrl' = validUrlOf(Trim(formUrl))
              /\ formAnalysis' = None
              /\ isLoading' = TRUE
              /\ formError' = None
    /\ UNCHANGED <<formUrl, added, outsideForm>>

\* analyzeUrl settled: lines 198-212.
FormSettle(o, i, random, j) ==
    /\ isLoading
    /\ i <= j
    /\ IF o.kind = "resolved"
         THEN /\ formAnalysis' = o.value
              /\ added' = Append(added, formBookmarkOf(o.value, validUrl, Instants[i],
                                                       random, Instants[j]))
              /\ formUrl' = EmptyStr
              /\ formError' = formError
         ELSE /\ formError' = o.value.error
              /\ UNCHANGED <<formAnalysis, added, formUrl>>
    /\ isLoading' = FALSE
    /\ UNCHANGED <<submittedUrl, validUrl, outsideForm>>

\* String.prototype.toLowerCase on the letters the inputs use.
LowerTok(tok) ==
    CASE tok = "A" -> "a"
      [] tok = "B" -> "b"
      [] OTHER -> tok

ToLowerCase(s) == [i \in DOMAIN s |-> LowerTok(s[i])]

\* ------------------- concurrent invocations of analyzeUrl and of the handler
\* Two invocations of analyzeUrl under way at once, each with the invocation
\* of the /api/analyze-url handler that serves its request.  JavaScript runs
\* the code between two awaits without interruption, so a step is the code
\* from one await to the next.  The module-level names of both files
\* (shouldUseMock, MOCK_DELAY, ai, app, PORT) are constants; everything else
\* is a local of the invocation.
Invocations == {"first", "second"}

ConcUrls == {UrlA, UrlB, UrlBare}

ConcFetchOutcomes ==
    {[kind |-> "response", status |-> HTTP_OK,
      page |-> [headers |-> HdrNone, html |-> HtmlFull]],
     [kind |-> "response", status |-> HTTP_OK,
      page |-> [headers |-> HdrDeny, html |-> HtmlBare]],
     [kind |-> "noResponse"]}

ConcModelOutcomes ==
    {[kind |-> "rejected"], [kind |-> "notJson"],
     [kind |-> "object", parsed |-> ObjGood],
     [kind |-> "object", parsed |-> ObjNoImage]}

\* The locals of an invocation that has not been called.
RunIdle ==
    [pc |-> "idle", url |-> EmptyStr, hPc |-> "Idle", fetch |-> None,
     iframe |-> TRUE, images |-> <<>>, model |-> None, reply |-> None,
     remote |-> "none", direct |-> None, now |-> 0, via |-> "none",
     result |-> None]

\* req.body.url as the handler serving invocation i reads it.
HandlerUrlOfLatestRequest(i) ==
    IF \E j \in Invocations : j # i /\ runs[j].hPc # "Idle"
      THEN runs[CHOOSE j \in Invocations : j # i /\ runs[j].hPc # "Idle"].url
      ELSE runs[i].url

HandlerUrl(i) == runs[i].url

\* The handler ends with a reply.
HandlerReplies(r, reply) ==
    [r EXCEPT !.reply = reply,
              !.hPc = IF reply.status = HTTP_OK THEN "Done" ELSE "Failed"]

\* analyzeUrl(u) up to its first await.
ConcCall(i, u) ==
    /\ runs[i].pc = "idle"
    /\ runs' = [runs EXCEPT ![i] =
          IF shouldUseMock
            THEN [@ EXCEPT !.url = u, !.pc = "mockDelay"]
            ELSE [@ EXCEPT !.url = u, !.pc = "remote", !.hPc = "Requested"]]
    /\ UNCHANGED outsideConc

\* The MOCK_DELAY timer of invocation i fires.
ConcMockTimer(i) ==
    /\ runs[i].pc = "mockDelay"
    /\ runs' = [runs EXCEPT ![i] =
          [@ EXCEPT !.pc = "returned", !.via = "mock", !.now = clock,
                    !.result = createMockResponse(runs[i].url, clock)]]
    /\ UNCHANGED outsideConc

\* The request of invocation i reaches the backend: lines 118-141 of the
\* handler, up to the await of axios.get.
ConcReceive(i) ==
    /\ runs[i].hPc = "Requested"
    /\ runs' = [runs EXCEPT ![i] =
          IF HandlerUrl(i) = EmptyStr
            THEN HandlerReplies(@, [status |-> HTTP_BAD_REQUEST,
                                    data |-> [error |-> Str("URL is required")]])
          ELSE IF ~IsAbsoluteUrl(HandlerUrl(i))
            THEN HandlerReplies(@, [status |-> HTTP_BAD_REQUEST,
                    data |-> [error |-> Str("The provided URL format is invalid.")]])
          ELSE [@ EXCEPT !.hPc = "Fetching"]]
    /\ UNCHANGED outsideConc

\* axios.get of the handler serving i settled: lines 143-221, up to the
\* await of generateContent.
ConcFetched(i, o) ==
    /\ runs[i].hPc = "Fetching"
    /\ runs' = [runs EXCEPT ![i] =
          IF ~AxiosResolves(o)
            THEN HandlerReplies([@ EXCEPT !.fetch = o], CatchReply(AxiosErrorOf(o)))
          ELSE IF ExtractImagesThrows(o.page.html)
            THEN HandlerReplies([@ EXCEPT !.fetch = o,
                                          !.iframe = openInIframeOf(o.page.headers)],
                                CatchReply(TypeError))
          ELSE [@ EXCEPT !.fetch = o,
                         !.iframe = openInIframeOf(o.page.headers),
                         !.images = uniqueImageUrls(HandlerUrl(i), o.page.html),
                         !.hPc = "InvokingModel"]]
    /\ UNCHANGED outsideConc

\* generateContent of the handler serving i settled: lines 223-241 and the
\* catch block.
ConcModel(i, o) ==
    /\ runs[i].hPc = "InvokingModel"
    /\ runs' = [runs EXCEPT ![i] =
          CASE o.kind = "rejected" ->
                 HandlerReplies([@ EXCEPT !.model = o],
                                CatchReply(PlainError(Str("model call failed"))))
            [] o.kind = "notJson" ->
                 HandlerReplies([@ EXCEPT !.model = o], CatchReply(InvalidJsonError))
            [] o.kind = "null" ->
                 HandlerReplies([@ EXCEPT !.model = o], CatchReply(TypeError))
            [] OTHER ->
                 HandlerReplies([@ EXCEPT !.model = o],
                    [status |-> HTTP_OK,
                     data |-> ServerResult(HandlerUrl(i), o.parsed,
                                           runs[i].images, runs[i].iframe)])]
    /\ UNCHANGED outsideConc

\* fetch of invocation i resolved with the handler's reply: return data, or
\* throw into the catch and call callFrontendGemini.
ConcResponse(i) ==
    /\ runs[i].pc = "remote"
    /\ runs[i].hPc \in {"Done", "Failed"}
    /\ runs' = [runs EXCEPT ![i] =
          IF runs[i].reply.status \in 200..299
            THEN [@ EXCEPT !.remote = "reply", !.pc = "returned", !.via = "remote",
                           !.result = runs[i].reply.data]
            ELSE [@ EXCEPT !.remote = "reply", !.pc = "direct"]]
    /\ UNCHANGED outsideConc

\* fetch of invocation i rejected: the backend is not running.
ConcUnreachable(i) ==
    /\ runs[i].pc = "remote"
    /\ runs[i].hPc = "Requested"
    /\ runs' = [runs EXCEPT ![i] =
          [@ EXCEPT !.remote = "unreachable", !.hPc = "Idle", !.pc = "direct"]]
    /\ UNCHANGED outsideConc

\* generateContent of callFrontendGemini settled for invocation i.
ConcDirect(i, o) ==
    /\ runs[i].pc = "direct"
    /\ runs' = [runs EXCEPT ![i] =
          IF o.kind = "object"
            THEN [@ EXCEPT !.direct = o, !.pc = "returned", !.via = "direct",
                           !.result = FrontendResult(runs[i].url, o.parsed)]
            ELSE [@ EXCEPT !.direct = o, !.pc = "threw", !.via = "threw",
                           !.result = FrontendError(o)]]
    /\ UNCHANGED outsideConc

\* ------------------------------ guide.md backend: accounts and bookmarks
HTTP_UNAUTHORIZED == 401
HTTP_FORBIDDEN == 403
HTTP_NOT_FOUND == 404

Usernames == {<<"ann">>, <<"bob">>}

\* The password an account is registered with, and what a login may try.
RegisterPasswords == {<<"s3cret">>, EmptyStr}
LoginPasswords == {<<"s3cret">>, <<"guess">>}

\* bcrypt.hash and bcrypt.compare.
BcryptHash(password) == <<"$2b$10$">> \o password
BcryptCompare(password, hashed) == hashed = BcryptHash(password)

\* jwt.sign({ id, username }, JWT_SECRET): only the server can make a token
\* that jwt.verify accepts.
JwtSign(user) == [id |-> user.id, username |-> user.username, signed |-> TRUE]

\* Tokens a client can make up: a payload without the server's signature,
\* and a string that is no token at all.
ForgedTokens ==
    {[id |-> i, username |-> n, signed |-> FALSE] : i \in 1..2, n \in Usernames}
        \cup {[garbage |-> TRUE]}

\* The Authorization header of a request: absent, or carrying a token.
RequestTokens == {None} \cup tokens \cup ForgedTokens

JwtVerifies(token) == "signed" \in DOMAIN token /\ token.signed

\* authenticateToken: the status it ends the request with, or 0 for next().
authenticateToken(token) ==
    IF token = None THEN HTTP_UNAUTHORIZED
    ELSE IF ~JwtVerifies(token) THEN HTTP_FORBIDDEN
    ELSE 0

\* req.user after authenticateToken.
ReqUser(token) ==
    IF authenticateToken(token) = 0
      THEN [id |-> token.id, username |-> token.username]
      ELSE None

\* The ids of the bookmarks the backend can create: the ISO instant of the
\* insertion followed by Math.random().
BookmarkIdAt(n) == <<"2024-01-01T00:00:0", ToString(n), ".000Z", "0.", ToString(n)>>

BookmarkIds == {BookmarkIdAt(n) : n \in 1..MaxCreated}

\* What PUT can set.
NoteTexts == {Str("read later")}
TagLists == {<< <<"todo">> >>}

\* JSON.parse of a tags column: the quoted items between the brackets.
RECURSIVE JsonParseItems(_, _, _)
JsonParseItems(toks, item, inItem) ==
    IF toks = <<>> THEN <<>>
    ELSE IF Head(toks) = "\"" THEN
        IF inItem THEN <<item>> \o JsonParseItems(Tail(toks), <<>>, FALSE)
        ELSE JsonParseItems(Tail(toks), <<>>, TRUE)
    ELSE IF inItem THEN JsonParseItems(Tail(toks), Append(item, Head(toks)), TRUE)
    ELSE JsonParseItems(Tail(toks), item, FALSE)

JsonParse(column) == JsonParseItems(column, <<>>, FALSE)

\* {...row, tags: JSON.parse(row.tags || '[]')}.
RowOut(row) ==
    [row EXCEPT !.tags = JsonParse(IF row.tags = EmptyStr THEN Str("[]") ELSE row.tags)]

\* WHERE id = ? AND userId = ?
RowMatchesIdOnly(row, id, user) == row.id = id

RowMatches(row, id, user) == row.id = id /\ row.userId = user.id

Reverse(seq) == [i \in DOMAIN seq |-> seq[Len(seq) + 1 - i]]

\* One request and its response; served tells whether the route handler ran.
Exchange(req, status, body, served) ==
    /\ lastReq' = req
    /\ lastRes' = [status |-> status, body |-> body, served |-> served]

\* A request ended by authenticateToken.
Refused(req) ==
    /\ authenticateToken(req.token) # 0
    /\ Exchange(req, authenticateToken(req.token), None, FALSE)
    /\ UNCHANGED <<dbUsers, dbBookmarks, tokens, created>>

\* POST /api/auth/register.
Register(username, password) ==
    /\ LET req == [route |-> "register", token |-> None, username |-> username]
       IN IF username = EmptyStr \/ password = EmptyStr
            THEN /\ Exchange(req, HTTP_BAD_REQUEST, None, TRUE)
                 /\ dbUsers' = dbUsers
          ELSE IF \E k \in DOMAIN dbUsers : dbUsers[k].username = username
            THEN /\ Exchange(req, HTTP_BAD_REQUEST, None, TRUE)
                 /\ dbUsers' = dbUsers
          ELSE /\ Exchange(req, HTTP_CREATED, None, TRUE)
               /\ dbUsers' = Append(dbUsers,
                      [id |-> Len(dbUsers) + 1, username |-> username,
                       password |-> BcryptHash(password)])
    /\ UNCHANGED <<dbBookmarks, tokens, created, outsideBackend>>

\* POST /api/auth/login.
Login(username, password) ==
    /\ LET req == [route |-> "login", token |-> None, username |-> username]
           found == {k \in DOMAIN dbUsers : dbUsers[k].username = username}
       IN IF found = {}
            THEN /\ Exchange(req, HTTP_UNAUTHORIZED, None, TRUE)
                 /\ tokens' = tokens
          ELSE LET user == dbUsers[CHOOSE k \in found : TRUE]
               IN IF BcryptCompare(password, user.password)
                    THEN /\ Exchange(req, HTTP_OK, JwtSign(user), TRUE)
                         /\ tokens' = tokens \cup {JwtSign(user)}
                    ELSE /\ Exchange(req, HTTP_UNAUTHORIZED, None, TRUE)
                         /\ tokens' = tokens
    /\ UNCHANGED <<dbUsers, dbBookmarks, created, outsideBackend>>

\* GET /api/bookmarks.
ListBookmarks(token) ==
    /\ LET req == [route |-> "list", token |-> token]
       IN IF authenticateToken(token) # 0 THEN Refused(req)
          ELSE /\ Exchange(req, HTTP_OK,
                     [k \in DOMAIN Reverse(SelectSeq(dbBookmarks,
                                    LAMBDA row : row.userId = ReqUser(token).id)) |->
                        RowOut(Reverse(SelectSeq(dbBookmarks,
                                    LAMBDA row : row.userId = ReqUser(token).id))[k])],
                     TRUE)
               /\ UNCHANGED <<dbUsers, dbBookmarks, tokens, created>>
    /\ UNCHANGED outsideBackend

\* POST /api/bookmarks: the analysis of the page fails or gives a title and
\* tags, and the insert works or fails.
CreateBookmark(token, u, outcome) ==
    /\ created < MaxCreated
    /\ LET req == [route |-> "create", token |-> token, url |-> u]
           newBookmark ==
              [id |-> BookmarkIdAt(created + 1), userId |-> ReqUser(token).id,
               url |-> u, title |-> Str("A page"),
               tags |-> JsonStringify(<< <<"news">> >>), notes |-> EmptyStr,
               createdAt |-> created + 1]
       IN IF authenticateToken(token) # 0 THEN Refused(req)
          ELSE IF u = EmptyStr
            THEN /\ Exchange(req, HTTP_BAD_REQUEST, None, TRUE)
                 /\ UNCHANGED <<dbUsers, dbBookmarks, tokens, created>>
          ELSE IF outcome # "saved"
            THEN /\ Exchange(req, HTTP_SERVER_ERROR, None, TRUE)
                 /\ UNCHANGED <<dbUsers, dbBookmarks, tokens, created>>
          ELSE /\ Exchange(req, HTTP_CREATED, RowOut(newBookmark), TRUE)
               /\ dbBookmarks' = Append(dbBookmarks, newBookmark)
               /\ created' = created + 1
               /\ UNCHANGED <<dbUsers, tokens>>
    /\ UNCHANGED outsideBackend

\* PUT /api/bookmarks/:id.
UpdateBookmark(token, id, notes, tags) ==
    /\ LET req == [route |-> "update", token |-> token, id |-> id]
           user == ReqUser(token)
           changes == {k \in DOMAIN dbBookmarks : RowMatches(dbBookmarks[k], id, user)}
           updated == [k \in DOMAIN dbBookmarks |->
                         IF k \in changes
                           THEN [dbBookmarks[k] EXCEPT !.notes = notes,
                                                       !.tags = JsonStringify(tags)]
                           ELSE dbBookmarks[k]]
           rows == {k \in DOMAIN updated : updated[k].id = id}
       IN IF authenticateToken(token) # 0 THEN Refused(req)
          ELSE IF changes = {}
            THEN /\ Exchange(req, HTTP_NOT_FOUND, None, TRUE)
                 /\ UNCHANGED <<dbUsers, dbBookmarks, tokens, created>>
          ELSE /\ Exchange(req, HTTP_OK, RowOut(updated[CHOOSE k \in rows : TRUE]), TRUE)
               /\ dbBookmarks' = updated
               /\ UNCHANGED <<dbUsers, tokens, created>>
    /\ UNCHANGED outsideBackend

\* DELETE /api/bookmarks/:id.
DeleteBookmark(token, id) ==
    /\ LET req == [route |-> "delete", token |-> token, id |-> id]
           user == ReqUser(token)
           changes == {k \in DOMAIN dbBookmarks : RowMatches(dbBookmarks[k], id, user)}
       IN IF authenticateToken(token) # 0 THEN Refused(req)
          ELSE IF changes = {}
            THEN /\ Exchange(req, HTTP_NOT_FOUND, None, TRUE)
                 /\ UNCHANGED <<dbUsers, dbBookmarks, tokens, created>>
          ELSE /\ Exchange(req, HTTP_OK, [success |-> TRUE], TRUE)
               /\ dbBookmarks' = SelectSeq(dbBookmarks,
                                     LAMBDA row : ~RowMatches(row, id, user))
               /\ UNCHANGED <<dbUsers, tokens, created>>
    /\ UNCHANGED outsideBackend

\* ------------------------------------------- hooks/useBookmarkGrid.ts
ICON_ITEMS == 30
CARD_ITEMS == 12

getItemsPerPage(mode) == IF mode = "icon" THEN ICON_ITEMS ELSE CARD_ITEMS

SearchFields == {"title", "description", "url", "tags", "notes"}

AllFilters == [f \in SearchFields |-> TRUE]

\* The searchFilters the checkboxes are put in.
FilterSettings ==
    {AllFilters,
     [f \in SearchFields |-> FALSE],
     [f \in SearchFields |-> f = "tags"],
     [f \in SearchFields |-> f = "notes"]}

\* What is typed into the search box.
SearchTerms == {EmptyStr, <<"A", "b">>, <<"z">>}

\* The bookmarks of the list: the k-th has one of three contents.  The
\* first kind has no notes field.
GridBookmark(k) ==
    CASE k % 3 = 1 ->
           [id |-> k, title |-> <<"A", "b", "c">>, description |-> <<"d">>,
            url |-> <<"u", "a", "B">>, tags |-> << <<"t">>, <<"x", "a", "B">> >>]
      [] k % 3 = 2 ->
           [id |-> k, title |-> <<"c">>, description |-> <<"x", "a", "B", "y">>,
            url |-> <<"u">>, tags |-> <<>>, notes |-> <<"n", "a", "B">>]
      [] OTHER ->
           [id |-> k, title |-> <<"a">>, description |-> <<"b">>,
            url |-> <<"u">>, tags |-> << <<"a">>, <<"b">> >>, notes |-> EmptyStr]

GridList(n) == [k \in 1..n |-> GridBookmark(k)]

\* The lists the parent passes: empty, short, one more than a page of
\* cards, one more than a page of icons.
GridLists == {GridList(n) : n \in {0, 3, CARD_ITEMS + 1, ICON_ITEMS + 1}}

\* String.prototype.includes.
IncludesStr(s, needle) ==
    \E i \in 0..(Len(s) - Len(needle)) : SubSeq(s, i + 1, i + Len(needle)) = needle

\* The predicate of bookmarks.filter, lines 32-40.
MatchesCaseSensitive(bookmark, term, filters) ==
    \/ filters.title /\ IncludesStr(bookmark.title, term)
    \/ filters.description /\ IncludesStr(bookmark.description, term)
    \/ filters.url /\ IncludesStr(bookmark.url, term)
    \/ filters.tags /\ \E k \in DOMAIN bookmark.tags : IncludesStr(bookmark.tags[k], term)
    \/ filters.notes /\ Has(bookmark, "notes") /\ IncludesStr(bookmark.notes, term)

Matches(bookmark, term, filters) ==
    LET lowercasedTerm == ToLowerCase(term)
        inTitle == filters.title
                      /\ IncludesStr(ToLowerCase(bookmark.title), lowercasedTerm)
        inDescription == filters.description
                      /\ IncludesStr(ToLowerCase(bookmark.description), lowercasedTerm)
        inUrl == filters.url /\ IncludesStr(ToLowerCase(bookmark.url), lowercasedTerm)
        inTags == filters.tags
                      /\ \E k \in DOMAIN bookmark.tags :
                            IncludesStr(ToLowerCase(bookmark.tags[k]), lowercasedTerm)
        inNotes == filters.notes
                      /\ Has(bookmark, "notes")
                      /\ IncludesStr(ToLowerCase(bookmark.notes), lowercasedTerm)
    IN inTitle \/ inDescription \/ inUrl \/ inTags \/ inNotes

\* The body of the filteredBookmarks memo, lines 27-40.
filteredBookmarksOf(list, term, filters) ==
    IF term = EmptyStr THEN list
    ELSE SelectSeq(list, LAMBDA bookmark : Matches(bookmark, term, filters))

\* Array.prototype.slice(0, count).
Slice(arr, count) == SubSeq(arr, 1, Min(count, Len(arr)))

\* The dependencies of the filteredBookmarks memo, line 41.
MemoDepsNow ==
    <<gridBookmarks, debouncedSearchTerm, searchFilters, getItemsPerPage(viewMode)>>

\* A render of the component that uses the hook.  When a dependency of the
\* memo changed its body runs again: it calls setVisibleCount(itemsPerPage),
\* and React renders once more with that state before it commits.
Render ==
    /\ LET itemsPerPage == getItemsPerPage(viewMode)
           stale == memoDeps # MemoDepsNow
           filtered == IF stale
                         THEN filteredBookmarksOf(gridBookmarks, debouncedSearchTerm,
                                                  searchFilters)
                         ELSE rendered.filteredBookmarks
           count == IF stale THEN itemsPerPage ELSE visibleCount
       IN /\ visibleCount' = count
          /\ memoDeps' = MemoDepsNow
          /\ rendered' = [visibleCount |-> count, filteredBookmarks |-> filtered,
                          itemsPerPage |-> itemsPerPage,
                          visibleBookmarks |-> Slice(filtered, count)]
    /\ UNCHANGED <<gridBookmarks, viewMode, searchTerm, debouncedSearchTerm,
                   searchFilters, outsideGrid>>

\* The parent passes another list, or another view mode.
SetBookmarks(list) ==
    /\ gridBookmarks' = list
    /\ UNCHANGED <<viewMode, searchTerm, debouncedSearchTerm, searchFilters,
                   visibleCount, memoDeps, rendered, outsideGrid>>

SetViewMode(mode) ==
    /\ viewMode' = mode
    /\ UNCHANGED <<gridBookmarks, searchTerm, debouncedSearchTerm, searchFilters,
                   visibleCount, memoDeps, rendered, outsideGrid>>

\* setSearchTerm and setSearchFilters, called by the search box.
SetSearchTerm(term) ==
    /\ searchTerm' = term
    /\ UNCHANGED <<gridBookmarks, viewMode, debouncedSearchTerm, searchFilters,
                   visibleCount, memoDeps, rendered, outsideGrid>>

SetSearchFilters(filters) ==
    /\ searchFilters' = filters
    /\ UNCHANGED <<gridBookmarks, viewMode, searchTerm, debouncedSearchTerm,
                   visibleCount, memoDeps, rendered, outsideGrid>>

\* The timer of useDebounce fires.
Debounce ==
    /\ debouncedSearchTerm' = searchTerm
    /\ UNCHANGED <<gridBookmarks, viewMode, searchTerm, searchFilters,
                   visibleCount, memoDeps, rendered, outsideGrid>>

\* The IntersectionObserver callback of the last render runs with
\* isIntersecting: it tests the visibleCount and the length it closed over.
Intersect ==
    /\ rendered.visibleBookmarks # <<>>
    /\ rendered.visibleCount < Len(rendered.filteredBookmarks)
    /\ visibleCount + rendered.itemsPerPage <= MaxVisible
    /\ visibleCount' = visibleCount + rendered.itemsPerPage
    /\ UNCHANGED <<gridBookmarks, viewMode, searchTerm, debouncedSearchTerm,
                   searchFilters, memoDeps, rendered, outsideGrid>>

\* ------------------------- LocalApp: the bookmarks list and its modals
\* The calls of addBookmark, each with the value its Math.random() call
\* returns: successive calls of Math.random() return different values.
AddCalls == {"add1", "add2"}

RandomOf(c) == IF c = "add1" THEN <<"k3x9z0qwe">> ELSE <<"p07q1m2vb">>

\* new Date().toISOString() when Date.now() = now.
IsoOf(now) == <<"2025-01-01T00:00:00.00", ToString(now), "Z">>

\* What analyzeUrl(u) resolves with: a page that may be embedded, and one
\* that may not.
LocalAnalyses(u) ==
    {FrontendResult(u, ObjGood), ServerResult(u, ObjGood, <<>>, FALSE)}

\* Lines 124-134: pendingId and pendingBookmark.
pendingIdOf(now) == <<"pending-", ToString(now)>>

pendingBookmarkOf(u, now) ==
    [id |-> pendingIdOf(now),
     url |-> u,
     title |-> Str("Analyzing URL..."),
     description |-> Str("The AI is summarizing this page. This card will update automatically."),
     imageUrl |-> PicsumFor(u),
     tags |-> <<>>,
     createdAt |-> IsoOf(now),
     status |-> "pending"]

\* Lines 140-145: newBookmark.
localBookmarkOf(analysis, random, now) ==
    [k \in DOMAIN analysis \cup {"id", "notes", "createdAt"} |->
        CASE k = "id" -> IsoOf(now) \o random
          [] k = "notes" -> EmptyStr
          [] k = "createdAt" -> IsoOf(now)
          [] OTHER -> analysis[k]]

\* prev.map(b => b.id === id ? replacement : b)
MapReplace(prev, id, replacement) ==
    [k \in DOMAIN prev |-> IF prev[k].id = id THEN replacement ELSE prev[k]]

\* prev.filter(b => b.id !== id)
FilterOut(prev, id) == SelectSeq(prev, LAMBDA b : b.id # id)

IsPending(b) == "status" \in DOMAIN b /\ b.status = "pending"

\* addBookmark(u) up to its await: the placeholder is put in front.
addBookmark(c, u) ==
    /\ addCalls[c].st = "idle"
    /\ addCalls' = [addCalls EXCEPT ![c] =
                      [st |-> "awaiting", url |-> u, pendingId |-> pendingIdOf(clock)]]
    /\ bookmarks' = <<pendingBookmarkOf(u, clock)>> \o bookmarks
    /\ UNCHANGED <<editingBookmark, deletingBookmark, outsideApp>>

\* analyzeUrl resolved: the placeholder is replaced.
addBookmarkResolved(c, analysis) ==
    /\ addCalls[c].st = "awaiting"
    /\ addCalls' = [addCalls EXCEPT ![c].st = "returned"]
    /\ bookmarks' = MapReplace(bookmarks, addCalls[c].pendingId,
                               localBookmarkOf(analysis, RandomOf(c), clock))
    /\ UNCHANGED <<editingBookmark, deletingBookmark, outsideApp>>

\* analyzeUrl rejected: the placeholder is removed, the error thrown on.
addBookmarkRejected(c) ==
    /\ addCalls[c].st = "awaiting"
    /\ addCalls' = [addCalls EXCEPT ![c].st = "threw"]
    /\ bookmarks' = FilterOut(bookmarks, addCalls[c].pendingId)
    /\ UNCHANGED <<editingBookmark, deletingBookmark, outsideApp>>

\* The edit or the delete button of a card: a card that is pending has
\* neither.
EditClicked(k) ==
    /\ k \in DOMAIN bookmarks
    /\ ~IsPending(bookmarks[k])
    /\ editingBookmark' = bookmarks[k]
    /\ UNCHANGED <<bookmarks, deletingBookmark, addCalls, outsideApp>>

DeleteClicked(k) ==
    /\ k \in DOMAIN bookmarks
    /\ ~IsPending(bookmarks[k])
    /\ deletingBookmark' = bookmarks[k]
    /\ UNCHANGED <<bookmarks, editingBookmark, addCalls, outsideApp>>

\* The notes the edit modal saves.
EditedBookmark(b) == [k \in DOMAIN b \cup {"notes"} |->
                         IF k = "notes" THEN Str("read later") ELSE b[k]]

\* updateBookmark(updatedBookmark), called by the edit modal.
updateBookmark ==
    /\ editingBookmark # None
    /\ bookmarks' = MapReplace(bookmarks, editingBookmark.id,
                               EditedBookmark(editingBookmark))
    /\ editingBookmark' = None
    /\ UNCHANGED <<deletingBookmark, addCalls, outsideApp>>

\* deleteBookmark(id), called by the confirmation modal.
deleteBookmark ==
    /\ deletingBookmark # None
    /\ bookmarks' = FilterOut(bookmarks, deletingBookmark.id)
    /\ deletingBookmark' = None
    /\ UNCHANGED <<editingBookmark, addCalls, outsideApp>>

\* ------ LocalApp.tsx 49-68, App.tsx 77-89: the list mutations of the
\* apps that add a bookmark only once it has been analysed
\* [newBookmark, ...prev]
PrependAtEnd(prev, b) == Append(prev, b)

Prepend(prev, b) == <<b>> \o prev

\* LocalApp.tsx 49-50: addBookmark(url) up to its await.
addBookmarkAwaits(c, u) ==
    /\ addCalls[c].st = "idle"
    /\ addCalls' = [addCalls EXCEPT ![c] = [st |-> "awaiting", url |-> u]]
    /\ UNCHANGED <<bookmarks, editingBookmark, deletingBookmark, outsideApp>>

\* LocalApp.tsx 51-58: the analysis resolved, the new bookmark is put in
\* front.
addBookmarkPrepends(c, analysis) ==
    /\ addCalls[c].st = "awaiting"
    /\ addCalls' = [addCalls EXCEPT ![c].st = "returned"]
    /\ bookmarks' = Prepend(bookmarks, localBookmarkOf(analysis, RandomOf(c), clock))
    /\ UNCHANGED <<editingBookmark, deletingBookmark, outsideApp>>

\* LocalApp.tsx 50: the analysis rejected, addBookmark throws before it
\* touches the list.
addBookmarkThrows(c) ==
    /\ addCalls[c].st = "awaiting"
    /\ addCalls' = [addCalls EXCEPT ![c].st = "threw"]
    /\ UNCHANGED <<bookmarks, editingBookmark, deletingBookmark, outsideApp>>

\* The bookmarks the form of App.tsx hands to addBookmark.
GivenBookmarks(c) ==
    {formBookmarkOf(FrontendResult(u, ObjGood), u, IsoOf(clock), RandomOf(c), IsoOf(clock)) :
        u \in {UrlA, UrlB}}

\* App.tsx 77-79: addBookmark(newBookmark).
addBookmarkGiven(c, newBookmark) ==
    /\ addCalls[c].st = "idle"
    /\ addCalls' = [addCalls EXCEPT ![c] = [st |-> "returned", url |-> newBookmark.url]]
    /\ bookmarks' = Prepend(bookmarks, newBookmark)
    /\ UNCHANGED <<editingBookmark, deletingBookmark, outsideApp>>

\* ------ components/BackendApp.tsx 20-135: the app of the backend mode
Fetches == {"fetch1", "fetch2"}
Requests == Fetches \cup {"update", "delete"}

outsideBackendApp == <<vars, bmVars, formVars, concVars, backendVars, gridVars, openVars>>
outsideOpen == <<vars, bmVars, formVars, concVars, backendVars, gridVars, appVars, sessionVars>>

\* The accounts that log in, and the tokens the backend signs for them.
AppUsers == {[id |-> 1, username |-> <<"ann">>], [id |-> 2, username |-> <<"bob">>]}
AppTokens == {JwtSign(user) : user \in AppUsers}

\* A bookmark as the backend serves it: a row of its owner.
ServedBookmark(owner, u, n) ==
    RowOut([id |-> BookmarkIdAt(n), userId |-> owner.id, url |-> u,
            title |-> Str("A page"), tags |-> JsonStringify(<< <<"news">> >>),
            notes |-> EmptyStr, createdAt |-> n])

\* What GET /api/bookmarks answers to a token: the rows of its user.
FetchedLists(owner) == {<<>>, <<ServedBookmark(owner, UrlB, owner.id + 2)>>}

CallNumber(c) == IF c = "add1" THEN 1 ELSE 2

\* Lines 124-134: the screen that is rendered.
LoadingScreen == appState = "loading" /\ bookmarks = <<>>
AuthPageShown == ~LoadingScreen /\ authToken = None
MainView == ~LoadingScreen /\ authToken # None

\* Lines 186-205: an open modal lies over the whole page (BookmarkModal.tsx
\* 34, ConfirmationModal.tsx 24), the header, the form and the cards are
\* used only while none is open.
PageInUse == MainView /\ editingBookmark = None /\ deletingBookmark = None

\* onClose of the edit modal, onCancel of the confirmation.
CloseModal ==
    /\ MainView
    /\ editingBookmark # None \/ deletingBookmark # None
    /\ editingBookmark' = None
    /\ deletingBookmark' = None
    /\ UNCHANGED <<bookmarks, addCalls, sessionVars, outsideBackendApp>>

\* Lines 115-117, and the effect of lines 56-62 that the new token
\* triggers: fetchBookmarks up to its await (lines 42-46).
handleLoginSuccess(f, newToken) ==
    /\ AuthPageShown
    /\ requests[f].st = "idle"
    /\ authToken' = newToken
    /\ appState' = "loading"
    /\ requests' = [requests EXCEPT ![f] = [st |-> "awaiting", token |-> newToken]]
    /\ UNCHANGED <<appError, appVars, outsideBackendApp>>

\* Lines 47-48: getBookmarks resolved.
getBookmarksResolved(f, fetched) ==
    /\ f \in Fetches
    /\ requests[f].st = "awaiting"
    /\ bookmarks' = fetched
    /\ appState' = "ready"
    /\ requests' = [requests EXCEPT ![f] = [st |-> "idle"]]
    /\ UNCHANGED <<authToken, appError, editingBookmark, deletingBookmark, addCalls,
                   outsideBackendApp>>

\* Lines 49-53: getBookmarks rejected.
getBookmarksRejected(f) ==
    /\ f \in Fetches
    /\ requests[f].st = "awaiting"
    /\ appError' = Str("An API error occurred")
    /\ appState' = "error"
    /\ requests' = [requests EXCEPT ![f] = [st |-> "idle"]]
    /\ UNCHANGED <<authToken, appVars, outsideBackendApp>>

\* Lines 77-79: addBookmark(url) up to its await.
createBookmarkSent(c, u) ==
    /\ PageInUse
    /\ addCalls[c].st = "idle"
    /\ addCalls' = [addCalls EXCEPT ![c] =
                      [st |-> "awaiting", url |-> u, token |-> authToken]]
    /\ UNCHANGED <<bookmarks, editingBookmark, deletingBookmark, sessionVars,
                   outsideBackendApp>>

\* Line 80: createBookmark resolved.
createBookmarkResolved(c) ==
    /\ addCalls[c].st = "awaiting"
    /\ addCalls' = [addCalls EXCEPT ![c].st = "returned"]
    /\ bookmarks' = Prepend(bookmarks,
                            ServedBookmark(addCalls[c].token, addCalls[c].url, CallNumber(c)))
    /\ UNCHANGED <<editingBookmark, deletingBookmark, sessionVars, outsideBackendApp>>

\* Line 79: createBookmark rejected, addBookmark throws.
createBookmarkRejected(c) ==
    /\ addCalls[c].st = "awaiting"
    /\ addCalls' = [addCalls EXCEPT ![c].st = "threw"]
    /\ UNCHANGED <<bookmarks, editingBookmark, deletingBookmark, sessionVars,
                   outsideBackendApp>>

\* Lines 83-85: updateBookmark(updatedBookmark) up to its await.
updateBookmarkSent ==
    /\ MainView
    /\ editingBookmark # None
    /\ requests["update"].st = "idle"
    /\ requests' = [requests EXCEPT !["update"] =
                      [st |-> "awaiting", bookmark |-> EditedBookmark(editingBookmark),
                       token |-> authToken]]
    /\ UNCHANGED <<authToken, appState, appError, appVars, outsideBackendApp>>

\* Lines 86-87: the backend answered with the saved bookmark.
updateBookmarkResolved ==
    /\ requests["update"].st = "awaiting"
    /\ LET savedBookmark == requests["update"].bookmark
       IN bookmarks' = MapReplace(bookmarks, savedBookmark.id, savedBookmark)
    /\ editingBookmark' = None
    /\ requests' = [requests EXCEPT !["update"] = [st |-> "idle"]]
    /\ UNCHANGED <<authToken, appState, appError, deletingBookmark, addCalls,
                   outsideBackendApp>>

\* Lines 89-91: deleteBookmark(id) up to its await.
deleteBookmarkSent ==
    /\ MainView
    /\ deletingBookmark # None
    /\ requests["delete"].st = "idle"
    /\ requests' = [requests EXCEPT !["delete"] =
                      [st |-> "awaiting", id |-> deletingBookmark.id, token |-> authToken]]
    /\ UNCHANGED <<authToken, appState, appError, appVars, outsideBackendApp>>

\* Lines 92-93: the backend deleted the bookmark.
deleteBookmarkResolved ==
    /\ requests["delete"].st = "awaiting"
    /\ bookmarks' = FilterOut(bookmarks, requests["delete"].id)
    /\ deletingBookmark' = None
    /\ requests' = [requests EXCEPT !["delete"] = [st |-> "idle"]]
    /\ UNCHANGED <<authToken, appState, appError, editingBookmark, addCalls,
                   outsideBackendApp>>

\* Lines 85 and 91: the request of an update or a delete failed, the
\* handler throws.
requestRejected(r) ==
    /\ r \in {"update", "delete"}
    /\ requests[r].st = "awaiting"
    /\ requests' = [requests EXCEPT ![r] = [st |-> "idle"]]
    /\ UNCHANGED <<authToken, appState, appError, appVars, outsideBackendApp>>

\* Lines 119-122, and the effect of lines 56-62 for the token that is
\* null.
handleLogout ==
    /\ PageInUse
    /\ authToken' = None
    /\ bookmarks' = <<>>
    /\ appState' = "ready"
    /\ UNCHANGED <<appError, requests, editingBookmark, deletingBookmark, addCalls,
                   outsideBackendApp>>

\* ------ handleOpenBookmark: App.tsx 91-99, ConfirmationModal.tsx 166-180
\* (LocalApp), BackendApp.tsx 97-112
\* x === false
StrictlyFalse(x) == ToString(x) = "FALSE"

\* sqlite3 binds a boolean as the integer 1 or 0, and a BOOLEAN column
\* gives that integer back (guide.md 119, 300-301, 248-252).
SqliteBoolean(x) == IF x THEN 1 ELSE 0

\* The row GET /api/bookmarks answers for a bookmark POST has saved.
FetchedRow(saved) == [saved EXCEPT !.openInIframe = SqliteBoolean(@)]

\* A bookmark saved before the field existed.
WithoutFlag(b) == [k \in DOMAIN b \ {"openInIframe"} |-> b[k]]

OpenUrls == {UrlA, UrlB}

\* The bookmarks of LocalApp: analysed by the frontend (openInIframe true)
\* or by the analysis server (false here), older ones, and placeholders.
LocalOpenable ==
    LET analysed == {localBookmarkOf(analysis, <<"0.25">>, 0) :
                        analysis \in UNION {LocalAnalyses(u) : u \in OpenUrls}}
    IN analysed \cup {WithoutFlag(b) : b \in analysed}
                \cup {pendingBookmarkOf(u, 0) : u \in OpenUrls}

\* The bookmarks of App.tsx, as its form built them.
AppOpenable ==
    LET built == {formBookmarkOf(record, record.url, IsoOf(0), <<"0.25">>, IsoOf(0)) :
                     record \in UNION {LocalAnalyses(u) : u \in OpenUrls}}
    IN built \cup {WithoutFlag(b) : b \in built}

\* The bookmarks the backend has saved for the user, with the flag of its
\* classifier.
BackendSaved ==
    {ServedBookmark([id |-> 1], u, 1) @@ [openInIframe |-> flag] :
        u \in OpenUrls, flag \in BOOLEAN}

\* One call: what it was called with, and the parity of the number of
\* calls so far.
CallOf(app, saved, bookmark, isMobile) ==
    [app |-> app, saved |-> saved, bookmark |-> bookmark, isMobile |-> isMobile,
     n |-> IF openCall = None THEN 1 ELSE 1 - openCall.n]

\* Lines 94-98 of App.tsx, 175-179 of ConfirmationModal.tsx, 107-111 of
\* BackendApp.tsx.
OpenByFlag(bookmark) ==
    IF Has(bookmark, "openInIframe") /\ StrictlyFalse(bookmark.openInIframe)
      THEN newTab' = bookmark.url /\ UNCHANGED browsingUrl
      ELSE browsingUrl' = bookmark.url /\ UNCHANGED newTab

\* App.tsx 91-99.
handleOpenBookmarkApp(bookmark) ==
    /\ openCall' = CallOf("App", bookmark, bookmark, FALSE)
    /\ OpenByFlag(bookmark)
    /\ UNCHANGED outsideOpen

\* ConfirmationModal.tsx 166-180.
handleOpenBookmarkLocal(bookmark, isMobile) ==
    /\ openCall' = CallOf("LocalApp", bookmark, bookmark, isMobile)
    /\ IF IsPending(bookmark) THEN UNCHANGED <<browsingUrl, newTab>>
       ELSE IF ~isMobile THEN newTab' = bookmark.url /\ UNCHANGED browsingUrl
       ELSE OpenByFlag(bookmark)
    /\ UNCHANGED outsideOpen

\* BackendApp.tsx 97-112: the card shows the bookmark as createBookmark
\* answered it, or, once the list has been loaded again, as getBookmarks
\* did.
handleOpenBookmarkBackend(saved, reloaded, isMobile) ==
    LET bookmark == IF reloaded THEN FetchedRow(saved) ELSE saved
    IN /\ openCall' = CallOf("BackendApp", saved, bookmark, isMobile)
       /\ IF ~isMobile THEN newTab' = bookmark.url /\ UNCHANGED browsingUrl
          ELSE OpenByFlag(bookmark)
       /\ UNCHANGED outsideOpen

\* onClose of the InAppBrowser.
CloseBrowser ==
    /\ browsingUrl # None
    /\ browsingUrl' = None
    /\ UNCHANGED <<newTab, openCall, outsideOpen>>

\* ------------------------------------------------- the specification
Init ==
    /\ apiKey \in BOOLEAN
    /\ clock = 0
    /\ pc = "idle"
    /\ url = EmptyStr
    /\ inflight = {}
    /\ issued = <<>>
    /\ via = "none"
    /\ result = None
    /\ directModel = None
    /\ mockLog = <<>>
    /\ net = NetIdle
    /\ srvPc = "Idle"
    /\ srvStages = <<>>
    /\ srvUrl = None /\ srvFetch = None /\ srvPage = None /\ srvIframe = None /\ srvText = None
    /\ srvImages = None /\ srvPrompt = None /\ srvModel = None
    /\ srvErr = None /\ srvReply = None
    /\ bmPc = "Idle"
    /\ bmUrl = None /\ bmUser = None /\ bmPage = None /\ bmTitle = None
    /\ bmDescription = None /\ bmImageUrl = None /\ bmIframe = None
    /\ bmPrompt = None /\ bmAnalysis = None /\ bmBookmark = None
    /\ bmDb = <<>>
    /\ bmReply = None
    /\ formUrl = EmptyStr
    /\ isLoading = FALSE
    /\ formError = None
    /\ submittedUrl = None /\ validUrl = None /\ formAnalysis = None
    /\ added = <<>>
    /\ runs = [i \in Invocations |-> RunIdle]
    /\ dbUsers = <<>>
    /\ dbBookmarks = <<>>
    /\ tokens = {}
    /\ created = 0
    /\ lastReq = None
    /\ lastRes = None
    /\ gridBookmarks = <<>>
    /\ viewMode = "card"
    /\ searchTerm = EmptyStr
    /\ debouncedSearchTerm = EmptyStr
    /\ searchFilters = AllFilters
    /\ visibleCount = CARD_ITEMS
    /\ memoDeps = <<<<>>, EmptyStr, AllFilters, CARD_ITEMS>>
    /\ rendered = [visibleCount |-> CARD_ITEMS, filteredBookmarks |-> <<>>, itemsPerPage |-> CARD_ITEMS, visibleBookmarks |-> <<>>]
    /\ bookmarks = <<>>
    /\ editingBookmark = None
    /\ deletingBookmark = None
    /\ addCalls = [c \in AddCalls |-> [st |-> "idle"]]
    /\ authToken = None
    /\ appState = "ready"
    /\ appError = None
    /\ requests = [r \in Requests |-> [st |-> "idle"]]
    /\ browsingUrl = None
    /\ newTab = None
    /\ openCall = None

Next ==
    \/ UNCHANGED outsidePipeline /\ (\E u \in Urls : Call(u))
    \/ UNCHANGED outsidePipeline /\ MockTimer
    \/ UNCHANGED outsidePipeline /\ RemoteSettle
    \/ UNCHANGED outsidePipeline /\ RemoteReject
    \/ UNCHANGED outsidePipeline /\ (\E status \in {200, 502} : ForeignResponse(status))
    \/ UNCHANGED outsidePipeline /\ (\E o \in ModelOutcomes : DirectSettle(o))
    \/ UNCHANGED outsidePipeline /\ Tick
    \/ UNCHANGED outsidePipeline /\ SrvReceive
    \/ UNCHANGED outsidePipeline /\ SrvValidateUrl
    \/ UNCHANGED outsidePipeline /\ (\E o \in FetchOutcomes : SrvFetch(o))
    \/ UNCHANGED outsidePipeline /\ SrvClassify
    \/ UNCHANGED outsidePipeline /\ SrvExtract
    \/ UNCHANGED outsidePipeline /\ SrvPrompt
    \/ UNCHANGED outsidePipeline /\ (\E o \in ModelOutcomes : SrvModel(o))
    \/ UNCHANGED outsidePipeline /\ SrvRespond

Spec == Init /\ [][Next]_allVars

\* The bookmarks route on its own.
BmNext ==
    \/ \E u \in BmUrls, user \in UserIds : BmReceive(u, user)
    \/ \E o \in BmFetchOutcomes : BmFetched(o)
    \/ \E o \in BmModelOutcomes, i \in DOMAIN Instants, random \in Randoms,
           j \in DOMAIN Instants : BmModel(o, i, random, j)
    \/ \E err \in BOOLEAN : BmSaved(err)

\* The client plays no part here: its credential is fixed.
BmInit == Init /\ apiKey

BookmarkSpec == BmInit /\ [][BmNext]_allVars

\* The form on its own.
FormNext ==
    \/ \E text \in FormTexts : FormChange(text)
    \/ \E text \in FormTexts : FormFocus(text)
    \/ FormSubmit
    \/ /\ isLoading
       /\ \E o \in AnalysisOutcomes(validUrl), i \in DOMAIN Instants,
             random \in Randoms, j \in DOMAIN Instants :
                FormSettle(o, i, random, j)

FormSpec == BmInit /\ [][FormNext]_allVars

ConcNext ==
    \/ \E i \in Invocations, u \in ConcUrls : ConcCall(i, u)
    \/ \E i \in Invocations : ConcMockTimer(i)
    \/ \E i \in Invocations : ConcReceive(i)
    \/ \E i \in Invocations, o \in ConcFetchOutcomes : ConcFetched(i, o)
    \/ \E i \in Invocations, o \in ConcModelOutcomes : ConcModel(i, o)
    \/ \E i \in Invocations : ConcResponse(i)
    \/ \E i \in Invocations : ConcUnreachable(i)
    \/ \E i \in Invocations, o \in ConcModelOutcomes : ConcDirect(i, o)
    \/ UNCHANGED <<outsidePipeline>> /\ Tick

ConcSpec == Init /\ [][ConcNext]_allVars

BackendNext ==
    \/ \E username \in Usernames \cup {EmptyStr}, password \in RegisterPasswords :
          Register(username, password)
    \/ \E username \in Usernames, password \in LoginPasswords : Login(username, password)
    \/ \E token \in RequestTokens : ListBookmarks(token)
    \/ \E token \in RequestTokens, u \in {UrlA, EmptyStr},
          outcome \in {"saved", "analysisFailed", "saveFailed"} :
             CreateBookmark(token, u, outcome)
    \/ \E token \in RequestTokens, id \in BookmarkIds, notes \in NoteTexts,
          tags \in TagLists : UpdateBookmark(token, id, notes, tags)
    \/ \E token \in RequestTokens, id \in BookmarkIds : DeleteBookmark(token, id)

BackendSpec == Init /\ [][BackendNext]_allVars

GridNext ==
    \/ Render
    \/ \E list \in GridLists : SetBookmarks(list)
    \/ \E mode \in {"card", "icon"} : SetViewMode(mode)
    \/ \E term \in SearchTerms : SetSearchTerm(term)
    \/ \E filters \in FilterSettings : SetSearchFilters(filters)
    \/ Debounce
    \/ Intersect

GridSpec == Init /\ [][GridNext]_allVars

LocalNext ==
    \/ \E c \in AddCalls, u \in {UrlA, UrlB} : addBookmark(c, u)
    \/ \E c \in AddCalls :
          /\ addCalls[c].st = "awaiting"
          /\ \E analysis \in LocalAnalyses(addCalls[c].url) :
                addBookmarkResolved(c, analysis)
    \/ \E c \in AddCalls : addBookmarkRejected(c)
    \/ \E k \in 1..Len(bookmarks) : EditClicked(k)
    \/ \E k \in 1..Len(bookmarks) : DeleteClicked(k)
    \/ updateBookmark
    \/ deleteBookmark
    \/ UNCHANGED <<outsidePipeline>> /\ Tick

LocalSpec == Init /\ [][LocalNext]_allVars

\* The list mutations of LocalApp.tsx and App.tsx: updateBookmark and
\* deleteBookmark are the same code in both.
ListNext ==
    \/ \E c \in AddCalls, u \in {UrlA, UrlB} : addBookmarkAwaits(c, u)
    \/ \E c \in AddCalls :
          /\ addCalls[c].st = "awaiting"
          /\ \E analysis \in LocalAnalyses(addCalls[c].url) :
                addBookmarkPrepends(c, analysis)
    \/ \E c \in AddCalls : addBookmarkThrows(c)
    \/ \E c \in AddCalls : \E newBookmark \in GivenBookmarks(c) :
          addBookmarkGiven(c, newBookmark)
    \/ \E k \in 1..Len(bookmarks) : EditClicked(k)
    \/ \E k \in 1..Len(bookmarks) : DeleteClicked(k)
    \/ updateBookmark
    \/ deleteBookmark
    \/ UNCHANGED <<outsidePipeline>> /\ Tick

ListSpec == Init /\ [][ListNext]_allVars

\* BackendApp: sessions, the load of the list and the requests of its
\* handlers, settled in any order.
BackendAppNext ==
    \/ \E f \in Fetches, newToken \in AppTokens : handleLoginSuccess(f, newToken)
    \/ \E f \in Fetches :
          /\ requests[f].st = "awaiting"
          /\ \E fetched \in FetchedLists(requests[f].token) : getBookmarksResolved(f, fetched)
    \/ \E f \in Fetches : getBookmarksRejected(f)
    \/ createBookmarkSent("add1", UrlA)
    \/ createBookmarkResolved("add1")
    \/ createBookmarkRejected("add1")
    \/ \E k \in 1..Len(bookmarks) : PageInUse /\ EditClicked(k)
    \/ \E k \in 1..Len(bookmarks) : PageInUse /\ DeleteClicked(k)
    \/ CloseModal
    \/ updateBookmarkSent
    \/ updateBookmarkResolved
    \/ deleteBookmarkSent
    \/ deleteBookmarkResolved
    \/ \E r \in {"update", "delete"} : requestRejected(r)
    \/ handleLogout

BackendAppSpec == Init /\ [][BackendAppNext]_allVars

\* handleOpenBookmark of the three apps, called with the bookmarks each of
\* them can hold.
OpenNext ==
    \/ \E bookmark \in AppOpenable : handleOpenBookmarkApp(bookmark)
    \/ \E bookmark \in LocalOpenable, isMobile \in BOOLEAN :
          handleOpenBookmarkLocal(bookmark, isMobile)
    \/ \E saved \in BackendSaved, reloaded \in BOOLEAN, isMobile \in BOOLEAN :
          handleOpenBookmarkBackend(saved, reloaded, isMobile)
    \/ CloseBrowser

OpenSpec == Init /\ [][OpenNext]_allVars

\* The endpoint and the form, each exercised on its own: requests reach
\* the endpoint while the form is untouched, and the form is used while no
\* analysis of the client chain has been started.  Neither reads a variable
\* of the other.
FormAtRest ==
    formUrl = EmptyStr /\ ~isLoading /\ formAnalysis = None /\ added = <<>>

PipelineAtRest == pc = "idle" /\ clock = 0 /\ srvPc = "Idle"

ValidationNext ==
    \/ FormAtRest /\ Next
    \/ PipelineAtRest /\ FormNext

ValidationSpec == Init /\ [][ValidationNext]_allVars

\* ------------------------------------------------------------ claims
Range(seq) == {seq[i] : i \in DOMAIN seq}

IsPrefix(a, b) == Len(a) <= Len(b) /\ \A i \in DOMAIN a : a[i] = b[i]

ResultKeys == {"url", "title", "description", "imageUrl", "tags", "openInIframe"}

\* The AnalysisResult invariants of the data model.
ValidAnalysisResult(r) ==
    /\ ResultKeys \subseteq DOMAIN r
    /\ r.title # EmptyStr
    /\ r.description # EmptyStr
    /\ r.imageUrl # EmptyStr
    /\ Len(r.tags) \in 1..8
    /\ \A i, j \in DOMAIN r.tags :
          i # j => ToLowerCase(r.tags[i]) # ToLowerCase(r.tags[j])

\* The calls of the current invocation, by name.
CallsIssued == [i \in DOMAIN issued |-> issued[i].call]

\* The handler ended in its catch block or an early return while in stage.
FailedAt(stage) ==
    srvPc = "Failed" /\ srvStages[Len(srvStages)] = stage

\* C1: analyzeUrl never fails: for a syntactically valid URL it never ends
\* by throwing, whatever the remote call and the direct model call do (the
\* mock record is returned when both fail).
C1_NeverThrows ==
    IsAbsoluteUrl(url) => pc # "threw"

\* C2: the strategies of one invocation run one after another and the
\* first success wins: at most one outbound call is in flight, the direct
\* model call is issued only after the remote call and once that has
\* settled, and a result of the remote strategy comes with no direct call.
C2_StrictlySequential ==
    /\ Cardinality(inflight) <= 1
    /\ IsPrefix(CallsIssued, <<"remote", "direct">>)
    /\ pc = "remote" => inflight = {"remote"}
    /\ pc = "direct" => inflight = {"direct"} /\ net = NetIdle
    /\ pc \in {"returned", "threw"} => inflight = {}
    /\ via = "remote" => CallsIssued = <<"remote">>
    /\ via = "direct" => CallsIssued = <<"remote", "direct">>
    /\ via = "mock" => CallsIssued = <<>>

C2_Witness ==
    /\ pc = "returned"
    /\ via = "direct"
    /\ CallsIssued = <<"remote", "direct">>

\* C3: whenever the remote call is over, either its response was parseable
\* JSON with a success status and its data is returned, or (network failure,
\* timeout, error status, unparseable body) the direct model call is issued
\* with the same URL and nothing has been thrown or returned to the caller.
C3_RemoteFailureFallsBack ==
    [][(pc = "remote" /\ pc' # "remote") =>
          \/ /\ net.st = "response"
             /\ net.json
             /\ net.status \in 200..299
             /\ pc' = "returned"
             /\ via' = "remote"
          \/ /\ pc' = "direct"
             /\ url' = url
             /\ issued' = Append(issued, Outbound("direct", url))
             /\ result' = None]_vars

C3_Witness ==
    /\ pc = "direct"
    /\ srvPc = "Failed"
    /\ issued = <<Outbound("remote", url), Outbound("direct", url)>>

\* C4: without an API key the invocation issues no outbound call, the
\* endpoint is never contacted, and what it returns is the mock record for
\* its URL; the mock record is returned only when the key is absent or both
\* other strategies were tried.
C4_NoCredentialMockOnly ==
    /\ ~apiKey =>
          /\ issued = <<>>
          /\ inflight = {}
          /\ net = NetIdle
          /\ srvPc = "Idle"
          /\ pc \in {"idle", "mockDelay", "returned"}
          /\ pc = "returned" =>
                /\ via = "mock"
                /\ \E t \in 0..MaxClock : result = createMockResponse(url, t)
    /\ via = "mock" => ~apiKey \/ CallsIssued = <<"remote", "direct">>

C4_Witness ==
    /\ ~apiKey
    /\ pc = "returned"
    /\ via = "mock"
    /\ result.url = url

\* C5: the mock record is a function of the URL alone: two records the mock
\* strategy returned for the same URL are identical.
C5_MockDependsOnUrlOnly ==
    \A i, j \in DOMAIN mockLog :
        mockLog[i].url = mockLog[j].url => mockLog[i] = mockLog[j]

\* C6: every record analyzeUrl returns for a valid URL, whichever strategy
\* produced it, satisfies the AnalysisResult invariants: non-empty title,
\* description and imageUrl, 1 to 8 tags, no two tags equal ignoring case.
C6_ReturnedResultIsValid ==
    (pc = "returned" /\ IsAbsoluteUrl(url)) => ValidAnalysisResult(result)

\* C7: the direct model strategy yields openInIframe = true whatever the
\* model's answer contains.
C7_DirectAlwaysIframe ==
    (pc = "returned" /\ via = "direct") => result.openInIframe = TRUE

C7_Witness ==
    /\ pc = "returned"
    /\ via = "direct"
    /\ Has(directModel.parsed, "openInIframe")
    /\ directModel.parsed.openInIframe = FALSE
    /\ result.openInIframe = TRUE

\* C8: the handler runs its stages in the order Validating URL, Fetching,
\* Extracting, Classifying, Prompting, Invoking Model, Validating Response,
\* Done, each at most once; a failure ends the request with an error
\* response and no later stage runs; the response is a complete
\* AnalysisResult or an error object, never a partial result.
C8_LinearPipeline ==
    /\ IsPrefix(srvStages,
                <<"ValidatingURL", "Fetching", "Extracting", "Classifying",
                  "Prompting", "InvokingModel", "ValidatingResponse", "Done">>)
    /\ srvPc = "Failed" =>
          /\ srvReply.status >= 400
          /\ DOMAIN srvReply.data = {"error"}
          /\ "Done" \notin Range(srvStages)
          /\ FailedAt("Fetching") => "InvokingModel" \notin Range(srvStages)
    /\ srvPc = "Done" =>
          /\ srvReply.status = HTTP_OK
          /\ DOMAIN srvReply.data = ResultKeys

\* C9: the endpoint's status by error kind: an invalid URL, an unreachable
\* page (no response, timeout) and an upstream error status give a 4xx, the
\* last with the upstream status quoted in the message; a failed model call
\* and an unparseable model answer give a 5xx; every failure body is
\* { error: string }.
C9_StatusByErrorKind ==
    srvPc = "Failed" =>
        /\ DOMAIN srvReply.data = {"error"}
        /\ srvReply.data.error # EmptyStr
        /\ FailedAt("ValidatingURL") => srvReply.status \in 400..499
        /\ (FailedAt("Fetching") /\ srvFetch.kind = "noResponse") =>
              srvReply.status \in 400..499
        /\ (FailedAt("Fetching") /\ srvFetch.kind = "response") =>
              /\ srvReply.status \in 400..499
              /\ Includes(srvReply.data.error, ToString(srvFetch.status))
        /\ FailedAt("InvokingModel") => srvReply.status \in 500..599
        /\ FailedAt("ValidatingResponse") => srvReply.status \in 500..599

C9_Witness ==
    /\ FailedAt("Fetching")
    /\ srvFetch.kind = "response"
    /\ srvFetch.status = 404
    /\ srvReply.status = HTTP_BAD_REQUEST

\* C10 as claimed: every HTTP response, whatever its status, gives a page
\* the pipeline goes on with; only the absence of a response fails the fetch.
C10_EveryResponseIsAPage ==
    (srvFetch # None /\ srvFetch.kind = "response") =>
        /\ srvPage = srvFetch.page
        /\ ~FailedAt("Fetching")

\* C10 as amended: a response with a 2xx status gives the page the pipeline
\* goes on with; every other outcome of the fetch, an error status (403,
\* 404, 5xx) as much as no response at all, ends the request at the fetch
\* stage with an error response and no page.
C10_OnlySuccessIsAPage ==
    srvFetch # None =>
        IF srvFetch.kind = "response" /\ srvFetch.status \in 200..299
          THEN /\ srvPage = srvFetch.page
               /\ "Classifying" \in Range(srvStages)
          ELSE /\ srvPage = None
               /\ FailedAt("Fetching")
               /\ srvReply.status >= 400
               /\ DOMAIN srvReply.data = {"error"}

C10_Witness ==
    /\ FailedAt("Fetching")
    /\ srvFetch.kind = "response"
    /\ srvFetch.status = 403
    /\ srvPage = None

\* The rule of the Embeddability Classifier: framing is refused when the
\* frame-options value is DENY or SAMEORIGIN in any letter case, or the
\* policy carries the directive frame-ancestors 'none' or 'self'.
RefusedByRule(headers) ==
    \/ /\ Has(headers, "x-frame-options")
       /\ ToUpperCase(headers["x-frame-options"]) \in {<<"DENY">>, <<"SAMEORIGIN">>}
    \/ /\ Has(headers, "content-security-policy")
       /\ \E i \in DOMAIN headers["content-security-policy"] :
             headers["content-security-policy"][i]
                \in {"frame-ancestors 'none'", "frame-ancestors 'self'"}

\* C11: the classifier answers allowed = false exactly when the
\* frame-options value equals DENY or SAMEORIGIN ignoring case, or the
\* frame-ancestors directive is 'none' or 'self'; every other header set,
\* the empty one included, gives allowed = true.  Stated for the header
\* check of the bookmarks route.
C11_ClassifierFollowsRule ==
    bmPage # None => (bmIframe <=> ~RefusedByRule(bmPage.headers))

\* C12: in every successful result of the endpoint, openInIframe is the
\* classifier's decision for the headers of the fetched page, whatever the
\* model answered; a policy with frame-ancestors 'self' gives false.
C12_IframeFromHeadersOnly ==
    srvPc = "Done" =>
        /\ srvReply.status = HTTP_OK
        /\ srvReply.data.openInIframe = ~RefusedByRule(srvPage.headers)
        /\ srvPage.headers = HdrCspSelf => srvReply.data.openInIframe = FALSE

C12_Witness ==
    /\ srvPc = "Done"
    /\ srvPage.headers = HdrCspSelf
    /\ srvModel.parsed = ObjIframeTrue
    /\ srvReply.data.openInIframe = FALSE

\* The tag normalisation of the Validator: entries lower-cased and trimmed,
\* the empty ones and the repeats dropped, the first 8 kept.
RECURSIVE CleanTags(_, _)
CleanTags(tags, kept) ==
    IF tags = <<>> \/ Len(kept) = 8 THEN kept
    ELSE LET tag == ToLowerCase(Trim(Head(tags)))
         IN  CleanTags(Tail(tags),
                       IF tag = EmptyStr \/ tag \in Range(kept)
                         THEN kept ELSE Append(kept, tag))

\* out is what the normalisation gives for the model's tags: the cleaned
\* list, or a single tag made from the host when that list is empty.
TagsNormalized(tags, out) ==
    IF CleanTags(tags, <<>>) = <<>>
      THEN Len(out) = 1 /\ out[1] # EmptyStr
      ELSE out = CleanTags(tags, <<>>)

\* C13: the tags of a result are the model's tags lower-cased, trimmed,
\* without empty entries and repeats, capped at 8 (so they never hold two
\* entries equal ignoring case), or one tag made from the host when nothing
\* is left; ["A","a","B"] gives ["a","b"].  Stated for the endpoint's result
\* and for the result of the direct model strategy.
C13_TagsAreNormalized ==
    /\ (srvPc = "Done" /\ Has(srvModel.parsed, "tags")) =>
          TagsNormalized(srvModel.parsed.tags, srvReply.data.tags)
    /\ (/\ pc = "returned" /\ via = "direct" /\ IsAbsoluteUrl(url)
        /\ Has(directModel.parsed, "tags")) =>
          TagsNormalized(directModel.parsed.tags, result.tags)

\* A parsed answer of the model lacks one of the required fields, or holds
\* it empty.
MissingField(parsed) ==
    \E k \in {"title", "description", "tags"} : ~Truthy(parsed, k)

\* C14: a model answer that lacks title, description or tags, or holds one
\* of them empty, fails validation: the endpoint answers with an error and
\* the direct model strategy throws; neither returns a result.
C14_MissingFieldIsRejected ==
    /\ (/\ srvPc \in {"Done", "Failed"}
        /\ Has(srvModel, "parsed")
        /\ MissingField(srvModel.parsed)) =>
          (srvPc = "Failed" /\ DOMAIN srvReply.data = {"error"})
    /\ (/\ pc \in {"returned", "threw"}
        /\ IsAbsoluteUrl(url)
        /\ Has(directModel, "parsed")
        /\ MissingField(directModel.parsed)) =>
          pc = "threw"

\* C15: the imageUrl of a result is the model's value when the model gave a
\* non-empty one, else the first extracted candidate, else the placeholder
\* keyed by the request URL; it is never empty, and it is the placeholder
\* only when the model gave none and no candidate was extracted.
C15_ImagePriority ==
    srvPc = "Done" =>
        LET imageUrl == srvReply.data.imageUrl
            parsed == srvModel.parsed
        IN  /\ imageUrl # EmptyStr
            /\ imageUrl =
                  IF Truthy(parsed, "imageUrl") THEN parsed.imageUrl
                  ELSE IF srvImages # <<>> THEN srvImages[1]
                  ELSE PicsumFor(srvUrl)
            /\ imageUrl = PicsumFor(srvUrl) =>
                  (~Truthy(parsed, "imageUrl") /\ srvImages = <<>>)

C15_Witness ==
    /\ srvPc = "Done"
    /\ ~Truthy(srvModel.parsed, "imageUrl")
    /\ srvImages = <<>>
    /\ srvReply.data.imageUrl = PicsumFor(srvUrl)

\* An image URL is absolute: it carries its scheme.
IsAbsoluteImage(img) == StartsWith(img, {"https://", "http://", "https:"})

\* C16: extracting the image candidates never fails the request, whatever
\* the page holds (no social image, no img element, a malformed src): the
\* handler goes on to the prompt with a list that starts with the social
\* image when there is one and has no repeats, no data: URI, only absolute
\* URLs and at most 20 entries.
C16_ImageExtractionNeverFails ==
    /\ ~FailedAt("Extracting")
    /\ "Prompting" \in Range(srvStages) =>
          /\ Len(srvImages) <= MAX_IMAGES
          /\ \A i, j \in DOMAIN srvImages : srvImages[i] = srvImages[j] => i = j
          /\ \A i \in DOMAIN srvImages :
                /\ IsAbsoluteImage(srvImages[i])
                /\ ~StartsWith(srvImages[i], {"data:"})
          /\ Truthy(srvPage.html, "ogImage") =>
                srvImages[1] = toAbsoluteUrl(srvUrl, srvPage.html.ogImage)

\* The title resolution of the Metadata Extractor: the first non-empty of
\* the social title, the <title> text and the first heading, else "Untitled".
TitleByRule(html) ==
    IF Truthy(html, "ogTitle") THEN html.ogTitle
    ELSE IF html.title # EmptyStr THEN html.title
    ELSE IF html.h1 # EmptyStr THEN html.h1
    ELSE Str("Untitled")

\* C17: the extracted title is the first non-empty value among the og:title
\* property, the <title> text and the first h1 text, and the literal
\* "Untitled" when all three are empty; a non-empty og:title is taken
\* verbatim.
C17_TitleResolution ==
    bmPage # None => bmTitle = TitleByRule(bmPage.html)

\* The description the meta tags give: the social one, else the standard
\* one, else none.
ResolvedDescription(html) ==
    IF Truthy(html, "ogDescription") THEN html.ogDescription
    ELSE IF Truthy(html, "metaDescription") THEN html.metaDescription
    ELSE EmptyStr

\* The words of a text: its maximal runs of characters other than spaces.
WordsIn(s) ==
    Cardinality({i \in DOMAIN s : s[i] # " " /\ (i = 1 \/ s[i - 1] = " ")})

\* C18: whenever the meta description has fewer than 10 words and the
\* description is taken from the scraped paragraphs, it is at most 350
\* characters long, whatever the lengths of the paragraphs.
C18_ScrapedDescriptionCapped ==
    (/\ bmPage # None
     /\ WordsIn(ResolvedDescription(bmPage.html)) < MIN_WORDS
     /\ bmDescription # ResolvedDescription(bmPage.html)) =>
        Len(bmDescription) <= SCRAPE_LENGTH

\* The region the scrape reads: <article> if present, else <main>, else
\* the body; and its paragraphs that hold text, in document order.
ScrapeRegion(html) ==
    IF Has(html, "article") THEN html.article
    ELSE IF Has(html, "main") THEN html.main
    ELSE html.bodyPs

HoldsText(p) == Trim(p) # EmptyStr

\* C19: the social description wins over the standard meta description; the
\* paragraphs are scraped exactly when that description is absent or has
\* fewer than 10 words, from <article> if present, else <main>, else the
\* body, in document order; when nothing is found the description is empty.
C19_DescriptionTiers ==
    bmPage # None =>
        LET resolved == ResolvedDescription(bmPage.html)
            found == SelectSeq(ScrapeRegion(bmPage.html), HoldsText)
        IN  IF WordsIn(resolved) >= MIN_WORDS THEN bmDescription = resolved
            ELSE IF found # <<>> THEN IsPrefix(Trim(found[1]), bmDescription)
            ELSE bmDescription = resolved

\* The URL normalisation: "https://" is put in front exactly when the URL
\* starts with neither "http://" nor "https://".
NormalizedUrl(u) ==
    IF StartsWith(u, {"http://"}) \/ StartsWith(u, {"https://"})
      THEN u
      ELSE <<"https://">> \o u

\* C20: the form normalises the submitted URL (the text of the field
\* without the white space around it): "https://" is put in front exactly
\* when it starts with neither "http://" nor "https://", other URLs are
\* left as they are, and normalising twice changes nothing; the url of the
\* bookmark handed on is that normalised URL, whatever url the record of
\* the analysis carried ("example.com" gives "https://example.com").
C20_UrlNormalization ==
    /\ (isLoading \/ formAnalysis # None) =>
          /\ validUrl = NormalizedUrl(Trim(submittedUrl))
          /\ validUrlOf(validUrl) = validUrl
    /\ (~isLoading /\ formAnalysis # None) =>
          added[Len(added)].url = NormalizedUrl(Trim(submittedUrl))

C20_Witness ==
    /\ ~isLoading
    /\ formAnalysis # None
    /\ submittedUrl = <<"example.com">>
    /\ formAnalysis.url = UrlB \o <<"/", "landing">>
    /\ added[Len(added)].url = <<"https://", "example.com">>

\* ---------------------------------------------------------------- C21
\* The endpoint got a url that is missing or not an absolute URL.
C21_BadRequestUrl ==
    /\ srvPc \notin {"Idle", "ValidatingURL"}
    /\ (srvUrl = EmptyStr \/ ~IsAbsoluteUrl(srvUrl))

C21_EndpointRejects ==
    C21_BadRequestUrl =>
        /\ FailedAt("ValidatingURL")
        /\ srvStages = <<"ValidatingURL">>
        /\ srvReply.status \in 400..499
        /\ srvFetch = None /\ srvPage = None
        /\ srvPrompt = None /\ srvModel = None

\* An analysis under way in the form was started from a text that passes
\* the pattern, and so was every bookmark added.
C21_FormAnalysesValidOnly ==
    /\ isLoading => UrlPatternTest(Trim(submittedUrl))
    /\ added # <<>> => UrlPatternTest(Trim(submittedUrl))

\* A text that fails the pattern is in the field, and a step leaves the
\* text as it is and an error on display: the step of handleSubmit.
C21_FormRejects ==
    (/\ ~isLoading
     /\ Trim(formUrl) # EmptyStr
     /\ ~UrlPatternTest(Trim(formUrl))
     /\ formUrl' = formUrl
     /\ ToString(formError') # ToString(None)) =>
        /\ ToString(formError') =
               ToString(Str("Please enter a valid URL (e.g., google.com)."))
        /\ ~isLoading'
        /\ added' = added
        /\ formAnalysis' = formAnalysis
        /\ UNCHANGED vars

C22_ReplyAlone(u, fetched, answered) ==
    IF u = EmptyStr
      THEN [status |-> HTTP_BAD_REQUEST, data |-> [error |-> Str("URL is required")]]
    ELSE IF ~IsAbsoluteUrl(u)
      THEN [status |-> HTTP_BAD_REQUEST,
            data |-> [error |-> Str("The provided URL format is invalid.")]]
    ELSE IF fetched = None THEN None
    ELSE IF ~AxiosResolves(fetched) THEN CatchReply(AxiosErrorOf(fetched))
    ELSE IF ExtractImagesThrows(fetched.page.html) THEN CatchReply(TypeError)
    ELSE IF answered = None THEN None
    ELSE CASE answered.kind = "rejected" ->
                 CatchReply(PlainError(Str("model call failed")))
           [] answered.kind = "notJson" -> CatchReply(InvalidJsonError)
           [] answered.kind = "null" -> CatchReply(TypeError)
           [] OTHER ->
                 [status |-> HTTP_OK,
                  data |-> ServerResult(u, answered.parsed,
                                        uniqueImageUrls(u, fetched.page.html),
                                        openInIframeOf(fetched.page.headers))]

\* What analyzeUrl(r.url) returns or throws when it runs alone and meets the
\* outcomes invocation r met: the instant its mock timer fired, the backend
\* reachable or not, and the settled fetch and model calls.
C22_ResultAlone(r) ==
    IF r.via = "mock" THEN createMockResponse(r.url, r.now)
    ELSE IF /\ r.remote = "reply"
            /\ C22_ReplyAlone(r.url, r.fetch, r.model) # None
            /\ C22_ReplyAlone(r.url, r.fetch, r.model).status \in 200..299
      THEN C22_ReplyAlone(r.url, r.fetch, r.model).data
    ELSE IF r.direct = None THEN None
    ELSE IF r.direct.kind = "object" THEN FrontendResult(r.url, r.direct.parsed)
    ELSE FrontendError(r.direct)

\* C22: concurrent invocations are independent: under every interleaving of
\* two analyzeUrl invocations and of the handler invocations serving them,
\* each handler answers, and each invocation returns or throws, exactly
\* what it would when run alone with the same fetch and model outcomes.
C22_InvocationsIndependent ==
    \A i \in Invocations :
        /\ runs[i].hPc \in {"Done", "Failed"} =>
              runs[i].reply = C22_ReplyAlone(runs[i].url, runs[i].fetch, runs[i].model)
        /\ runs[i].pc \in {"returned", "threw"} =>
              /\ runs[i].result = C22_ResultAlone(runs[i])
              /\ (runs[i].pc = "threw") = (runs[i].via = "threw")

\* Both invocations were under way at once, for different urls, both were
\* served by the backend with different pages, and both have returned.
C22_Witness ==
    /\ runs["first"].pc = "returned" /\ runs["second"].pc = "returned"
    /\ runs["first"].via = "remote" /\ runs["second"].via = "remote"
    /\ runs["first"].url # runs["second"].url
    /\ runs["first"].fetch # runs["second"].fetch
    /\ runs["first"].result # runs["second"].result

\* ---------------------------------------------------------------- C23
C23_BookmarkRoutes == {"list", "create", "update", "delete"}

\* The rows of table bookmarks a user owns.
C23_RowsOf(userId) == {k \in DOMAIN dbBookmarks : dbBookmarks[k].userId = userId}

\* What the last exchange shows: a listing holds the rows of the token's
\* user and no others, and only a request with a verified token was served
\* by a bookmark handler: none gets 401, an invalid one 403.
C23_Exchange ==
    (lastReq # None /\ lastReq.route \in C23_BookmarkRoutes) =>
        /\ lastReq.token = None => lastRes.status = HTTP_UNAUTHORIZED /\ ~lastRes.served
        /\ (lastReq.token # None /\ ~JwtVerifies(lastReq.token)) =>
              lastRes.status = HTTP_FORBIDDEN /\ ~lastRes.served
        /\ lastRes.served => lastReq.token \in tokens
        /\ (lastReq.route = "list" /\ lastRes.served) =>
              /\ lastRes.status = HTTP_OK
              /\ \A k \in DOMAIN lastRes.body : lastRes.body[k].userId = lastReq.token.id
              /\ {lastRes.body[k].id : k \in DOMAIN lastRes.body} =
                    {dbBookmarks[k].id : k \in C23_RowsOf(lastReq.token.id)}

\* The step of a request: one that was refused changes no row, and a PUT
\* or DELETE on a bookmark of another user answers 404 and changes no row.
C23_Step ==
    /\ (lastReq'.route \in C23_BookmarkRoutes /\ ~lastRes'.served) =>
          dbBookmarks' = dbBookmarks
    /\ (/\ lastReq'.route \in {"update", "delete"}
        /\ lastRes'.served
        /\ \E k \in DOMAIN dbBookmarks :
              /\ dbBookmarks[k].id = lastReq'.id
              /\ dbBookmarks[k].userId # lastReq'.token.id) =>
          /\ lastRes'.status = HTTP_NOT_FOUND
          /\ dbBookmarks' = dbBookmarks

\* C23: bookmark collections are private per user: GET /api/bookmarks
\* returns the rows owned by the token's user and only those, a PUT or
\* DELETE on a bookmark id owned by another user answers 404 and leaves
\* every row unchanged, and a request without a token (401) or with an
\* invalid token (403) never reaches a bookmark handler.
C23_PrivatePerUser == []C23_Exchange /\ [][C23_Step]_allVars

\* Two users hold bookmarks, and one of them was just refused (404) the
\* update of a bookmark of the other.
C23_Witness ==
    /\ lastReq # None
    /\ lastReq.route = "update"
    /\ lastRes.served
    /\ lastRes.status = HTTP_NOT_FOUND
    /\ \E k \in DOMAIN dbBookmarks :
          dbBookmarks[k].id = lastReq.id /\ dbBookmarks[k].userId # lastReq.token.id
    /\ C23_RowsOf(lastReq.token.id) # {}

\* ---------------------------------------------------------------- C24
\* text contains term when case is ignored.
C24_Contains(text, term) ==
    \E i \in 0..(Len(text) - Len(term)) :
        \A j \in 1..Len(term) : LowerTok(text[i + j]) = LowerTok(term[j])

\* At least one enabled field of the bookmark contains the term.
C24_Included(bookmark, term, filters) ==
    \/ filters.title /\ C24_Contains(bookmark.title, term)
    \/ filters.description /\ C24_Contains(bookmark.description, term)
    \/ filters.url /\ C24_Contains(bookmark.url, term)
    \/ filters.tags /\ \E k \in DOMAIN bookmark.tags : C24_Contains(bookmark.tags[k], term)
    \/ filters.notes /\ "notes" \in DOMAIN bookmark /\ C24_Contains(bookmark.notes, term)

\* C24: filteredBookmarks, for the bookmarks, the debounced term and the
\* filters it was computed from: every bookmark for an empty term; for a
\* non-empty term exactly the bookmarks with an enabled field among title,
\* description, url, tags and notes that contains the term ignoring case (a
\* tag list matches when one tag does, a missing notes field never does);
\* nothing when all five filters are off; always in the order of the list.
C24_SearchFiltering ==
    LET given == memoDeps[1]
        term == memoDeps[2]
        filters == memoDeps[3]
        filtered == rendered.filteredBookmarks
    IN /\ term = EmptyStr => filtered = given
       /\ term # EmptyStr =>
             /\ \A k \in DOMAIN given :
                   (\E n \in DOMAIN filtered : filtered[n] = given[k])
                      <=> C24_Included(given[k], term, filters)
             /\ \A n \in DOMAIN filtered : \E k \in DOMAIN given :
                   filtered[n] = given[k]
             /\ (\A f \in SearchFields : ~filters[f]) => filtered = <<>>
       /\ \A m, n \in DOMAIN filtered : m < n => filtered[m].id < filtered[n].id

\* A search for "Ab" in the tags only found the bookmarks with the tag
\* "xaB", and not the ones whose title or notes contain the term.
C24_Witness ==
    /\ memoDeps[2] = <<"A", "b">>
    /\ memoDeps[3] = [f \in SearchFields |-> f = "tags"]
    /\ Len(memoDeps[1]) = 3
    /\ Len(rendered.filteredBookmarks) = 1
    /\ rendered.filteredBookmarks[1].id = 1

\* ---------------------------------------------------------------- C28
\* C28: pagination: visibleBookmarks is the prefix of filteredBookmarks of
\* length min(visibleCount, |filteredBookmarks|), and visibleCount stays
\* below |filteredBookmarks| + itemsPerPage, also when the intersection
\* callback fires several times before a re-render.  The bound is stated
\* for a filtered list that is not empty: for an empty one it reads
\* itemsPerPage < itemsPerPage after every reset.
C28_Pagination ==
    /\ rendered.visibleBookmarks =
          SubSeq(rendered.filteredBookmarks, 1,
                 Min(rendered.visibleCount, Len(rendered.filteredBookmarks)))
    /\ rendered.filteredBookmarks # <<>> =>
          visibleCount < Len(rendered.filteredBookmarks) + rendered.itemsPerPage

\* ---------------------------------------------------------------- C25
\* The entries of the list that are call c's placeholder.
C25_Placeholders(c) ==
    {k \in DOMAIN bookmarks : bookmarks[k].id = addCalls[c].pendingId}

\* The step in which addBookmark call c starts, returns or throws.
C25_Started(c) == addCalls[c].st = "idle" /\ addCalls'[c].st = "awaiting"
C25_Returned(c) == addCalls[c].st = "awaiting" /\ addCalls'[c].st = "returned"
C25_Threw(c) == addCalls[c].st = "awaiting" /\ addCalls'[c].st = "threw"

C25_Step ==
    \A c \in AddCalls :
        /\ C25_Started(c) =>
              /\ Len(bookmarks') = Len(bookmarks) + 1
              /\ IsPending(bookmarks'[1])
              /\ bookmarks'[1].id = addCalls'[c].pendingId
              /\ Tail(bookmarks') = bookmarks
        /\ C25_Returned(c) =>
              \E k \in DOMAIN bookmarks :
                  /\ C25_Placeholders(c) = {k}
                  /\ IsPending(bookmarks[k])
                  /\ Len(bookmarks') = Len(bookmarks)
                  /\ ~IsPending(bookmarks'[k])
                  /\ bookmarks'[k].url = addCalls[c].url
                  /\ \A j \in DOMAIN bookmarks : j # k => bookmarks'[j] = bookmarks[j]
        /\ C25_Threw(c) =>
              \E k \in DOMAIN bookmarks :
                  /\ C25_Placeholders(c) = {k}
                  /\ bookmarks' = [j \in 1..(Len(bookmarks) - 1) |->
                                      IF j < k THEN bookmarks[j] ELSE bookmarks[j + 1]]

\* Every pending entry belongs to a call that still awaits its analysis.
C25_NoPendingLeftBehind ==
    \A k \in DOMAIN bookmarks :
        IsPending(bookmarks[k]) =>
            \E c \in AddCalls :
                addCalls[c].st = "awaiting" /\ addCalls[c].pendingId = bookmarks[k].id

\* C25: the placeholder lifecycle of LocalApp.addBookmark: the pending
\* placeholder is put in front before the analysis starts; a successful
\* analysis replaces it in place by exactly one analysed bookmark that is not
\* pending; a failed one removes it and the error is thrown on; under every
\* interleaving of addBookmark, updateBookmark and deleteBookmark calls a
\* settled call leaves no pending entry behind and changes no entry other
\* than its own placeholder.
C25_PlaceholderLifecycle == []C25_NoPendingLeftBehind /\ [][C25_Step]_allVars

\* ---------------------------------------------------------------- C27
\* C27: no two entries of the bookmarks list of LocalApp share an id,
\* pending placeholders included, also after concurrent adds started at the
\* same clock value.
C27_IdsUnique ==
    \A i, j \in DOMAIN bookmarks : i # j => bookmarks[i].id # bookmarks[j].id

\* ---------------------------------------------------------------- C29
\* C29: the list mutations touch only their target.  addBookmark puts
\* the new bookmark at index 0 and keeps all the others, in order;
\* updateBookmark replaces only the entries whose id is the updated
\* bookmark's, keeps the length and the positions, and leaves the list
\* as it is when no id matches; deleteBookmark removes exactly the
\* entries with the given id and keeps the order of the rest; update and
\* delete close their own modal and leave the other modal's state alone.
C29_Added(c) == addCalls[c].st # "returned" /\ addCalls'[c].st = "returned"
C29_Updated == editingBookmark # None /\ editingBookmark' = None
C29_Deleted == deletingBookmark # None /\ deletingBookmark' = None

\* How many of the first k entries carry the id.
C29_Before(k, id) == Cardinality({j \in 1..k : bookmarks[j].id = id})

C29_Step ==
    /\ \A c \in AddCalls : C29_Added(c) =>
          /\ Len(bookmarks') = Len(bookmarks) + 1
          /\ \A k \in DOMAIN bookmarks : bookmarks'[k + 1] = bookmarks[k]
          /\ bookmarks'[1].url = addCalls'[c].url
          /\ \A k \in DOMAIN bookmarks : bookmarks[k].id # bookmarks'[1].id
          /\ editingBookmark' = editingBookmark
          /\ deletingBookmark' = deletingBookmark
    /\ C29_Updated =>
          /\ Len(bookmarks') = Len(bookmarks)
          /\ \A k \in DOMAIN bookmarks :
                IF bookmarks[k].id = editingBookmark.id
                THEN /\ bookmarks'[k].id = editingBookmark.id
                     /\ bookmarks'[k] = EditedBookmark(editingBookmark)
                ELSE bookmarks'[k] = bookmarks[k]
          /\ (\A k \in DOMAIN bookmarks : bookmarks[k].id # editingBookmark.id)
                => bookmarks' = bookmarks
          /\ deletingBookmark' = deletingBookmark
    /\ C29_Deleted =>
          LET id == deletingBookmark.id IN
          /\ Len(bookmarks') = Len(bookmarks) - C29_Before(Len(bookmarks), id)
          /\ \A k \in DOMAIN bookmarks :
                bookmarks[k].id # id => bookmarks'[k - C29_Before(k, id)] = bookmarks[k]
          /\ editingBookmark' = editingBookmark

C26_EmptyWithoutToken == authToken = None => bookmarks = <<>>

C26_OwnBookmarksOnly ==
    authToken # None => \A k \in DOMAIN bookmarks : bookmarks[k].userId = authToken.id

C26_SessionBound == C26_EmptyWithoutToken /\ C26_OwnBookmarksOnly

\* ---------------------------------------------------------------- C30
\* C30: opening a bookmark respects embeddability.  A bookmark whose
\* openInIframe is false is never loaded in the in-app browser: browsingUrl
\* is not set and its url is opened in a new tab.  A bookmark whose
\* openInIframe is true or absent is loaded in the in-app browser (in
\* LocalApp and BackendApp on touch devices).  A pending bookmark is not
\* opened at all.
C30_Called == openCall' # openCall

C30_FlagFalse(b) == Has(b, "openInIframe") /\ StrictlyFalse(b.openInIframe)

\* x === y for values that are null or a string.
C30_Same(x, y) == ToString(x) = ToString(y)

C30_Step ==
    C30_Called =>
        LET b == openCall'.saved
            touch == openCall'.app = "App" \/ openCall'.isMobile
        IN /\ IsPending(b) =>
                 /\ C30_Same(browsingUrl', browsingUrl)
                 /\ C30_Same(newTab', newTab)
           /\ ~IsPending(b) /\ C30_FlagFalse(b) =>
                 /\ C30_Same(browsingUrl', browsingUrl)
                 /\ C30_Same(newTab', b.url)
           /\ ~IsPending(b) /\ ~C30_FlagFalse(b) /\ touch =>
                 /\ C30_Same(browsingUrl', b.url)
                 /\ C30_Same(newTab', newTab)

C30_RespectsEmbeddability == [][C30_Step]_openCall

=============================================================================
